---- MODULE Spec2Model ----
(***************************************************************************)
(* Model of the tennis-court booking worker (src/worker/src/index.ts):     *)
(* the browser session manager of MyMCP (init / cleanup), the KV-backed    *)
(* authorization store (storeMCPSession / getMCPSession / authenticateUser *)
(* and the /authenticate endpoint), the gated tool handlers and the time   *)
(* normalisation of book_and_request_sms.                                  *)
(*                                                                         *)
(* Scheduling: one JavaScript event loop.  A handler runs without          *)
(* interruption up to its next await; an await on an I/O operation is      *)
(* settled by a later task; continuations of settled promises are          *)
(* microtasks and run before any other task (see Runnable / Quiet).        *)
(* Time is Date.now() in milliseconds.                                     *)
(***************************************************************************)
EXTENDS Integers, Sequences, FiniteSets, TLC

\* ------------------------------------------------------------------ bounds
NumCallers == 2        \* concurrent invocations (callers of init / tools)
MaxAcq == 3            \* acquisition attempts (initPromise instances) per run
MaxTicks == 2          \* clock advances per run

NumUsers == 2          \* subjects (user ids) that may authenticate
MaxTimeLen == 4        \* length of the generated time arguments
MaxPages == 2          \* pages opened per run
NumDays == 2           \* calendar days the booking store covers
NumToolCallers == 1    \* callers running the gated tools
MaxCalls == 2          \* cleanup() calls in succession
MonthLen == 2          \* days of a calendar month

Procs == 1..NumCallers
AcqIds == 1..MaxAcq
Users == 1..NumUsers
PageIds == 1..MaxPages
Days == 1..NumDays

\* --------------------------------------------------------------- constants
BROWSER_TIMEOUT == 5 * 60 * 1000

SESSION_MAX_AGE == 3600000          \* line 123, milliseconds
KV_EXPIRATION_TTL == 3600           \* line 40, seconds

NoBrowser == 0         \* this.browser === null
NoPromise == 0         \* this.initPromise === null

VARIABLES
    now,               \* Date.now()
    ticks,             \* clock advances so far (bounds the run)
    hasBinding,        \* !!env.MYBROWSER
    browser,           \* this.browser: a handle id, or NoBrowser
    lastBrowserInit,   \* this.lastBrowserInit
    isInitializing,    \* this.isInitializing
    initPromise,       \* this.initPromise: an acquisition id, or NoPromise
    promises,          \* the async bodies created at line 145, by id
    live,              \* handles launched and not yet closed
    launched,          \* number of handles launched so far (handle ids)
    pc,                \* where each invocation stands
    tool,              \* which operation the invocation runs
    awaited,           \* the promise an invocation awaits in init()
    joined,            \* the acquisition in flight when the invocation entered init()
    seen,              \* this.browser as the invocation found it when init() returned
    caught,            \* the error init() threw to the invocation
    allowList,         \* env.AUTHORIZED_USER_EMAILS, a string (sequence of characters)
    kv,                \* env.KV under the prefix mcp_session:, by user id
    keys,              \* getMCPSession: the key names KV.list returned
    idx,               \* getMCPSession: position of the for loop in keys
    user,              \* what authenticateUser returned to the invocation
    authAt,            \* Date.now() as read at line 123 for the returned record
    authErr,           \* the store failed during the invocation's lookup
    http,              \* fetch: the request served and the response produced
    normIn,            \* a time argument given to the normalisation
    normOut,           \* what lines 494-499 made of it
    normDone,          \* the normalisation has run
    pages,             \* the pages opened in the browsers, by id
    time,              \* book_and_request_sms: the argument time
    page,              \* the page the invocation opened or found (0: none)
    used,              \* the handle (this.browser) the invocation drives
    times,             \* book_and_request_sms: the slot text read at line 492
    normalizedTime,    \* book_and_request_sms: normalizedTime
    result,            \* what the handler returned (or that it threw)
    did,               \* the browser and store operations the invocation performed
    plist,             \* enter_sms_code_and_complete: the pages listed at line 585
    pidx,              \* enter_sms_code_and_complete: position of the probe loop
    bookings,          \* env.KV under the prefix booking:, by day
    days,              \* get_booking_history: the argument days
    hi,                \* get_booking_history: the loop variable i
    found,             \* get_booking_history: bookings
    date,              \* check_tennis_courts: the argument date
    availability,      \* check_tennis_courts: availability
    tb,                \* test_browser: its local browser
    calls,             \* cleanup() calls the caller has made in succession
    pageText,          \* enter_sms_code_and_complete: pageText
    court,             \* check_tennis_courts: the argument court
    clicks,            \* clicks the invocation issued on the date picker's 'right' button
    cell               \* the day cell the invocation's day selector clicked

sessVars == <<hasBinding, browser, lastBrowserInit, isInitializing, initPromise,
              promises, live, launched>>
procVars == <<pc, tool, awaited, joined, seen, caught>>
clockVars == <<now, ticks>>
storeVars == <<allowList, kv>>
authVars == <<keys, idx, user, authAt, authErr>>
normVars == <<normIn, normOut, normDone>>
calVars == <<clicks, cell>>
pubVars == <<date, availability, tb, calls, pageText, court, calVars>>
toolVars == <<time, page, used, times, normalizedTime, result, did, plist, pidx,
              days, hi, found>>
vars == <<clockVars, sessVars, procVars, storeVars, authVars, http, normVars,
          pages, toolVars, bookings, pubVars>>
\* what the session manager, the authorization lookup and the store's writers never touch
notSession == <<storeVars, authVars, http, normVars, toolVars, bookings, pubVars>>
notAuth == <<sessVars, awaited, joined, seen, caught, normVars, pages, toolVars, bookings, pubVars>>
notStore == <<procVars, sessVars, normVars, pages, toolVars, bookings, pubVars>>

\* ------------------------------------------------------ session manager
\* One async body of init(), lines 145-170.
\*   st: "unused" | "closing" | "launching" | "resolved" | "rejected"
\*   at: the `now` captured at line 139;  err: what it threw
\*   handle: the handle it installed;  closes / launches: calls it issued
\*   old: the handle it found (NoBrowser if none)
FreshPromise ==
    [st |-> "unused", at |-> 0, err |-> "none", handle |-> NoBrowser,
     closes |-> 0, launches |-> 0, old |-> NoBrowser]

InFlight(k) == promises[k].st \in {"closing", "launching"}
Settled(k) == promises[k].st \in {"resolved", "rejected"}

\* line 134: if (this.isInitializing)
InFlightGuard_NoGuard == FALSE
InFlightGuard == isInitializing

\* line 140: this.browser && (now - this.lastBrowserInit) < this.BROWSER_TIMEOUT
IsFresh_NoExpiry == browser # NoBrowser
IsFresh == browser # NoBrowser /\ (now - lastBrowserInit) < BROWSER_TIMEOUT

\* lines 162-169: catch { this.browser = null; throw } finally { ... }
\* The body of promise k fails with error e.
Fail_Sticky(k, e) ==
    /\ browser' = NoBrowser
    /\ isInitializing' = TRUE
    /\ promises' = [promises EXCEPT ![k].st = "rejected", ![k].err = e]
Fail(k, e) ==
    /\ browser' = NoBrowser
    /\ isInitializing' = FALSE
    /\ promises' = [promises EXCEPT ![k].st = "rejected", ![k].err = e]

\* lines 152-159 reached by body k with the state prs of the promises: the
\* binding check, then the launch call is issued (and awaited).
BindingThenLaunch(k, prs) ==
    IF ~hasBinding
    THEN /\ browser' = NoBrowser
         /\ isInitializing' = FALSE
         /\ promises' = [prs EXCEPT ![k].st = "rejected", ![k].err = "binding"]
    ELSE /\ browser' = NoBrowser
         /\ isInitializing' = isInitializing
         /\ promises' = [prs EXCEPT ![k].st = "launching",
                                    ![k].launches = @ + 1]

\* Continuations of settled promises run before any other task.
Runnable ==
    {p \in Procs :
        \/ pc[p] = "init_wait" /\ awaited[p] # NoPromise /\ Settled(awaited[p])
        \/ pc[p] = "init_wait" /\ awaited[p] = NoPromise
        \/ pc[p] \in {"init_ret", "init_thrown", "authed", "done"}}
Quiet == Runnable = {} /\ http.method = "none"

\* init(), lines 133-173, up to its first await, run by invocation p.
EnterInit(p) ==
    LET k == CHOOSE i \in AcqIds : promises[i].st = "unused" /\
                 \A j \in AcqIds : promises[j].st = "unused" => i <= j
        flying == {i \in AcqIds : InFlight(i)}
    IN
    /\ joined' = [joined EXCEPT ![p] =
                    IF flying = {} THEN NoPromise ELSE CHOOSE i \in flying : TRUE]
    /\ IF InFlightGuard
       THEN \* lines 134-137: await this.initPromise
            /\ pc' = [pc EXCEPT ![p] = "init_wait"]
            /\ awaited' = [awaited EXCEPT ![p] = initPromise]
            /\ UNCHANGED <<sessVars>>
       ELSE IF IsFresh
       THEN \* lines 140-142: return
            /\ pc' = [pc EXCEPT ![p] = "init_ret"]
            /\ awaited' = [awaited EXCEPT ![p] = NoPromise]
            /\ UNCHANGED <<sessVars>>
       ELSE \* lines 144-172
            /\ \E i \in AcqIds : promises[i].st = "unused"
            /\ pc' = [pc EXCEPT ![p] = "init_wait"]
            /\ awaited' = [awaited EXCEPT ![p] = k]
            /\ initPromise' = k
            /\ UNCHANGED <<hasBinding, lastBrowserInit, live, launched>>
            /\ LET started == [promises EXCEPT ![k].at = now, ![k].old = browser]
               IN IF browser # NoBrowser
                  THEN \* line 148: await this.browser.close()
                       /\ promises' = [started EXCEPT ![k].st = "closing",
                                                      ![k].closes = @ + 1]
                       /\ isInitializing' = TRUE
                       /\ browser' = browser
                  ELSE IF ~hasBinding
                  THEN \* line 156 throws before any await: catch and finally
                       \* run, then line 145 assigns the rejected promise
                       /\ promises' = [started EXCEPT ![k].st = "rejected",
                                                      ![k].err = "binding"]
                       /\ isInitializing' = FALSE
                       /\ browser' = NoBrowser
                  ELSE \* line 159: await launch(...)
                       /\ promises' = [started EXCEPT ![k].st = "launching",
                                                      ![k].launches = @ + 1]
                       /\ isInitializing' = TRUE
                       /\ browser' = NoBrowser
    /\ seen' = [seen EXCEPT ![p] = IF (~InFlightGuard) /\ IsFresh THEN browser ELSE NoBrowser]
    /\ caught' = [caught EXCEPT ![p] = "none"]

\* A bare caller of init().
CallInit(p) ==
    /\ Quiet
    /\ pc[p] = "idle"
    /\ tool' = [tool EXCEPT ![p] = "init"]
    /\ EnterInit(p)
    /\ UNCHANGED <<clockVars, notSession, pages>>

\* line 148 settles: browser.close() of body k resolved (ok) or rejected.
CloseSettles(k, ok) ==
    /\ Quiet
    /\ promises[k].st = "closing"
    /\ IF ok
       THEN \* line 149, then lines 152-159; the closed browser's pages are gone
            /\ live' = live \ {promises[k].old}
            /\ pages' = [i \in PageIds |->
                           IF pages[i].st = "open" /\ pages[i].h = promises[k].old
                           THEN [pages[i] EXCEPT !.st = "closed"] ELSE pages[i]]
            /\ BindingThenLaunch(k, promises)
            /\ initPromise' = IF hasBinding THEN initPromise ELSE NoPromise
       ELSE \* lines 162-169
            /\ live' = live
            /\ pages' = pages
            /\ Fail(k, "close")
            /\ initPromise' = NoPromise
    /\ UNCHANGED <<hasBinding, lastBrowserInit, launched, procVars, clockVars, notSession>>

\* line 159 settles: launch() of body k resolved with a new handle, or rejected.
LaunchSettles(k, ok) ==
    /\ Quiet
    /\ promises[k].st = "launching"
    /\ IF ok
       THEN \* lines 159-161, 167-168
            /\ launched' = launched + 1
            /\ live' = live \cup {launched + 1}
            /\ browser' = launched + 1
            /\ lastBrowserInit' = promises[k].at
            /\ isInitializing' = FALSE
            /\ promises' = [promises EXCEPT ![k].st = "resolved",
                                            ![k].handle = launched + 1]
       ELSE \* lines 162-169
            /\ Fail(k, "launch")
            /\ UNCHANGED <<launched, live, lastBrowserInit>>
    /\ initPromise' = NoPromise
    /\ UNCHANGED <<hasBinding, procVars, clockVars, notSession, pages>>

\* lines 135 / 172: the awaited promise has settled; init() returns or throws.
InitResume(p) ==
    /\ pc[p] = "init_wait"
    /\ \/ awaited[p] = NoPromise
       \/ Settled(awaited[p])
    /\ IF awaited[p] # NoPromise /\ promises[awaited[p]].st = "rejected"
       THEN pc' = [pc EXCEPT ![p] = "init_thrown"]
       ELSE pc' = [pc EXCEPT ![p] = "init_ret"]
    /\ seen' = [seen EXCEPT ![p] = browser]
    /\ caught' = [caught EXCEPT ![p] =
                    IF awaited[p] # NoPromise THEN promises[awaited[p]].err ELSE "none"]
    /\ UNCHANGED <<tool, awaited, joined, sessVars, clockVars, notSession, pages>>

\* The bare caller takes init()'s outcome and is ready for a next call.
InitDone(p) ==
    /\ pc[p] \in {"init_ret", "init_thrown"}
    /\ tool[p] = "init"
    /\ pc' = [pc EXCEPT ![p] = "idle"]
    /\ tool' = [tool EXCEPT ![p] = "none"]
    /\ awaited' = [awaited EXCEPT ![p] = NoPromise]
    /\ joined' = [joined EXCEPT ![p] = NoPromise]
    /\ seen' = [seen EXCEPT ![p] = NoBrowser]
    /\ caught' = [caught EXCEPT ![p] = "none"]
    /\ calls' = [calls EXCEPT ![p] = 0]
    /\ UNCHANGED <<sessVars, clockVars, storeVars, authVars, http, normVars, toolVars,
                   bookings, date, availability, tb, pageText, court, calVars, pages>>


\* ------------------------------------------------------------ strings
\* A string is a sequence of one-character strings.
CasePairs == {<<"a", "A">>, <<"b", "B">>, <<"c", "C">>, <<"m", "M">>, <<"p", "P">>}
ToLowerChar(c) ==
    IF \E pr \in CasePairs : pr[2] = c THEN (CHOOSE pr \in CasePairs : pr[2] = c)[1] ELSE c
ToUpperChar(c) ==
    IF \E pr \in CasePairs : pr[1] = c THEN (CHOOSE pr \in CasePairs : pr[1] = c)[2] ELSE c
\* String.prototype.toLowerCase / toUpperCase
ToLowerCase(s) == [i \in 1..Len(s) |-> ToLowerChar(s[i])]
ToUpperCase(s) == [i \in 1..Len(s) |-> ToUpperChar(s[i])]
IsSpace(c) == c \in {" ", "\n"}
\* String.prototype.trim
RECURSIVE TrimStart(_)
TrimStart(s) == IF s # <<>> /\ IsSpace(Head(s)) THEN TrimStart(Tail(s)) ELSE s
RECURSIVE TrimEnd(_)
TrimEnd(s) ==
    IF s # <<>> /\ IsSpace(s[Len(s)]) THEN TrimEnd(SubSeq(s, 1, Len(s) - 1)) ELSE s
Trim(s) == TrimEnd(TrimStart(s))
\* String.prototype.split(sep) for a one-character separator: the pieces, in order
RECURSIVE SplitFrom(_, _, _)
SplitFrom(s, sep, piece) ==
    IF s = <<>> THEN <<piece>>
    ELSE IF Head(s) = sep THEN <<piece>> \o SplitFrom(Tail(s), sep, <<>>)
    ELSE SplitFrom(Tail(s), sep, Append(piece, Head(s)))
Split(s, sep) == SplitFrom(s, sep, <<>>)
\* Array.prototype.includes
ArrayIncludes(arr, x) == \E i \in 1..Len(arr) : arr[i] = x
\* String.prototype.includes: sub occurs in s as a substring
StringIncludes(s, sub) ==
    \E i \in 0..(Len(s) - Len(sub)) : SubSeq(s, i + 1, i + Len(sub)) = sub

\* ------------------------------------------------- authorization store
\* A stored session (the JSON of lines 32-37); id = 0 stands for no value / null.
NoUser == [id |-> 0, email |-> <<>>, timestamp |-> 0]
Present(r) == r.id # 0

\* storeMCPSession, lines 30-42: the value put under mcp_session:<userId>
StoredSession_NoTimestamp(userId, email) ==
    [id |-> userId, email |-> email, timestamp |-> 0]
StoredSession(userId, email) ==
    [id |-> userId, email |-> email, timestamp |-> now]

\* lines 943-945: the allow-list as the endpoint computes it
AuthorizedEmails ==
    LET parts == Split(allowList, ",")
    IN [i \in 1..Len(parts) |-> ToLowerCase(Trim(parts[i]))]

\* line 947: authorizedEmails.includes(userInfo.email.toLowerCase())
IsAuthorized_CaseSensitive(email) == ArrayIncludes(AuthorizedEmails, email)
IsAuthorized(email) == ArrayIncludes(AuthorizedEmails, ToLowerCase(email))

\* line 123: Date.now() - sessionData.timestamp < 3600000
SessionFresh_NoCheck(r) == TRUE
SessionFresh_Inclusive(r) == now - r.timestamp <= SESSION_MAX_AGE
SessionFresh(r) == now - r.timestamp < SESSION_MAX_AGE

\* lines 106-109: what authenticateUser returns when the lookup throws
OnAuthError_FailOpen == [id |-> 1, email |-> <<"a">>, timestamp |-> 0]
OnAuthError == NoUser

\* KV.list({prefix}): the names of the stored keys, in lexicographic order
RECURSIVE SortedSeq(_)
SortedSeq(S) ==
    IF S = {} THEN <<>>
    ELSE LET m == CHOOSE x \in S : \A y \in S : x <= y
         IN <<m>> \o SortedSeq(S \ {m})
ListKeys == SortedSeq({u \in Users : Present(kv[u])})

\* line 119 for the invocation p: the value under the key the loop is at
Examined_Latest(p) ==
    LET S == {kv[u] : u \in {v \in Users : Present(kv[v])}}
    IN IF S = {} THEN NoUser
       ELSE CHOOSE r \in S : \A q \in S : q.timestamp <= r.timestamp
Examined(p) == kv[keys[p][idx[p]]]

\* fetch, lines 911-981, for a request to /authenticate.  It runs in the
\* Worker, beside the tool invocations, and shares only the store with them.
\*   method: the HTTP method; body: what the request carries (json: request.json()
\*   parses; hasEmail: it has an email; email, userId: its fields); putOk: KV.put
\*   succeeds.
\* http records the request and the response (status; named: the email the
\* response text names) until the response is sent.
NoHttp == [method |-> "none", body |-> [json |-> FALSE, hasEmail |-> FALSE,
                                        email |-> <<>>, userId |-> 0],
           putOk |-> FALSE, status |-> 0, named |-> <<>>]
Fetch(method, body, putOk) ==
    LET respond(st, nm) == http' = [method |-> method, body |-> body,
                                    putOk |-> putOk, status |-> st, named |-> nm]
    IN
    /\ Quiet
    /\ IF method = "OPTIONS"
       THEN \* lines 915-924: the CORS preflight, status 200 by default
            respond(200, <<>>) /\ kv' = kv
       ELSE IF method # "POST"
       THEN \* lines 977-980
            respond(405, <<>>) /\ kv' = kv
       ELSE IF ~body.json \/ ~body.hasEmail
       THEN \* lines 938 / 947 throw: lines 968-974
            respond(500, <<>>) /\ kv' = kv
       ELSE IF ~IsAuthorized(body.email)
       THEN \* lines 947-953
            respond(403, body.email) /\ kv' = kv
       ELSE IF ~putOk
       THEN \* line 957 throws: lines 968-974
            respond(500, <<>>) /\ kv' = kv
       ELSE \* lines 957-966
            /\ respond(200, <<>>)
            /\ kv' = [kv EXCEPT ![body.userId] = StoredSession(body.userId, body.email)]
    /\ UNCHANGED <<allowList, authVars, clockVars, notStore>>

\* The response is sent; the request is over.
FetchDone ==
    /\ http # NoHttp
    /\ http' = NoHttp
    /\ UNCHANGED <<storeVars, authVars, clockVars, notStore>>

\* KV's expirationTtl (line 40): a key whose time to live has run out is
\* removed, at some moment after it has.
Expire(u) ==
    /\ Quiet
    /\ Present(kv[u])
    /\ now - kv[u].timestamp >= KV_EXPIRATION_TTL * 1000
    /\ kv' = [kv EXCEPT ![u] = NoUser]
    /\ UNCHANGED <<allowList, authVars, http, clockVars, notStore>>

\* authenticateUser (lines 96-110) begins: getMCPSession issues KV.list (line 117).
EnterAuth(p) ==
    /\ pc' = [pc EXCEPT ![p] = "auth_list"]
    /\ keys' = [keys EXCEPT ![p] = <<>>]
    /\ idx' = [idx EXCEPT ![p] = 0]
    /\ user' = [user EXCEPT ![p] = NoUser]
    /\ authAt' = [authAt EXCEPT ![p] = 0]
    /\ authErr' = [authErr EXCEPT ![p] = FALSE]

\* authenticateUser returns u to the invocation p (lines 101, 105, 108).
AuthReturns(p, u, failed) ==
    /\ pc' = [pc EXCEPT ![p] = "authed"]
    /\ user' = [user EXCEPT ![p] = u]
    /\ authAt' = [authAt EXCEPT ![p] = now]
    /\ authErr' = [authErr EXCEPT ![p] = failed]

\* line 117 settles: the key names, or the store throws.
AuthListSettles(p, ok) ==
    /\ Quiet
    /\ pc[p] = "auth_list"
    /\ IF ~ok
       THEN AuthReturns(p, OnAuthError, TRUE) /\ UNCHANGED <<keys, idx>>
       ELSE IF ListKeys = <<>>
       THEN \* line 129
            AuthReturns(p, NoUser, FALSE) /\ keys' = [keys EXCEPT ![p] = <<>>]
                                          /\ UNCHANGED idx
       ELSE \* line 119 is issued for the first key
            /\ pc' = [pc EXCEPT ![p] = "auth_get"]
            /\ keys' = [keys EXCEPT ![p] = ListKeys]
            /\ idx' = [idx EXCEPT ![p] = 1]
            /\ UNCHANGED <<user, authAt, authErr>>
    /\ UNCHANGED <<tool, storeVars, http, clockVars, notAuth>>

\* line 119 settles for the key the loop is at: the value ("ok"), a value
\* JSON.parse rejects ("garbage"), or the store throws ("throw").
AuthGetSettles(p, outcome) ==
    /\ Quiet
    /\ pc[p] = "auth_get"
    /\ IF outcome # "ok"
       THEN AuthReturns(p, OnAuthError, TRUE) /\ UNCHANGED <<keys, idx>>
       ELSE IF Present(Examined(p)) /\ SessionFresh(Examined(p))
       THEN \* lines 120-125
            AuthReturns(p, Examined(p), FALSE) /\ UNCHANGED <<keys, idx>>
       ELSE IF idx[p] = Len(keys[p])
       THEN \* line 129
            AuthReturns(p, NoUser, FALSE) /\ UNCHANGED <<keys, idx>>
       ELSE \* next iteration: line 119 again
            /\ idx' = [idx EXCEPT ![p] = idx[p] + 1]
            /\ UNCHANGED <<pc, keys, user, authAt, authErr>>
    /\ UNCHANGED <<tool, storeVars, http, clockVars, notAuth>>

\* auth_status, lines 846-902: the public tool that reports authenticateUser's answer.
CallAuthStatus(p) ==
    /\ Quiet
    /\ pc[p] = "idle"
    /\ tool' = [tool EXCEPT ![p] = "auth_status"]
    /\ EnterAuth(p)
    /\ UNCHANGED <<storeVars, http, clockVars, notAuth>>

AuthStatusReturns(p) ==
    /\ pc[p] = "authed"
    /\ tool[p] = "auth_status"
    /\ pc' = [pc EXCEPT ![p] = "idle"]
    /\ tool' = [tool EXCEPT ![p] = "none"]
    /\ keys' = [keys EXCEPT ![p] = <<>>]
    /\ idx' = [idx EXCEPT ![p] = 0]
    /\ user' = [user EXCEPT ![p] = NoUser]
    /\ authAt' = [authAt EXCEPT ![p] = 0]
    /\ authErr' = [authErr EXCEPT ![p] = FALSE]
    /\ UNCHANGED <<storeVars, http, clockVars, notAuth>>


\* --------------------------------------------------- time normalisation
IsDigit(c) == c \in {"0", "1", "2", "3", "4", "5", "6", "7", "8", "9"}
\* the last position of the run of digits that starts at position i of s
DigitRunEnd(s, i) ==
    CHOOSE j \in i..Len(s) :
        /\ \A k \in i..j : IsDigit(s[k])
        /\ j = Len(s) \/ ~IsDigit(s[j + 1])
\* /(\d+)(pm|am)/i matches at position i of s
AmPmMatchAt(s, i) ==
    /\ IsDigit(s[i])
    /\ LET j == DigitRunEnd(s, i)
       IN /\ j + 2 <= Len(s)
          /\ ToLowerCase(SubSeq(s, j + 1, j + 2)) \in {<<"p", "m">>, <<"a", "m">>}
\* line 497: time.replace(/(\d+)(pm|am)/i, '$1:00 $2'), the leftmost match only
ReplaceAmPm(s) ==
    IF \E i \in 1..Len(s) : AmPmMatchAt(s, i)
    THEN LET i == CHOOSE a \in 1..Len(s) :
                     AmPmMatchAt(s, a) /\ \A b \in 1..(a - 1) : ~AmPmMatchAt(s, b)
             j == DigitRunEnd(s, i)
         IN SubSeq(s, 1, j) \o <<":", "0", "0", " ">> \o SubSeq(s, j + 1, Len(s))
    ELSE s
\* lines 494-499: normalizedTime as computed from the argument time (here t)
NormalizeTime_NoUpperCase(t) ==
    IF StringIncludes(ToLowerCase(t), <<"p", "m">>)
         \/ StringIncludes(ToLowerCase(t), <<"a", "m">>)
    THEN IF ~StringIncludes(t, <<":">>) THEN ReplaceAmPm(t) ELSE t
    ELSE t
NormalizeTime(t) ==
    IF StringIncludes(ToLowerCase(t), <<"p", "m">>)
         \/ StringIncludes(ToLowerCase(t), <<"a", "m">>)
    THEN IF ~StringIncludes(t, <<":">>)
         THEN ToUpperCase(ReplaceAmPm(t))
         ELSE t
    ELSE t

\* The normalisation applied to the argument.
Normalize ==
    /\ ~normDone
    /\ normOut' = NormalizeTime(normIn)
    /\ normDone' = TRUE
    /\ UNCHANGED <<normIn, clockVars, sessVars, procVars, storeVars, authVars, http,
                   pages, toolVars, bookings, pubVars>>


\* ---------------------------------------------------------- tool handlers
\* A page of a browser: st is "unused", "open" or "closed"; h is its browser;
\* totp: it shows input[id="totp"], the verification-code input.
NoPage == [st |-> "unused", h |-> NoBrowser, totp |-> FALSE]
\* The argument date of check_tennis_courts: absent, 'today', 'tomorrow', a
\* date string new Date() parses (day is its day), or one it does not.
NoDate == [kind |-> "none", day |-> 0]
\* availability, lines 327-345; set = FALSE stands for null (line 295).
NoAvailability == [set |-> FALSE, error |-> "none", availableTimes |-> <<>>,
                   totalSlots |-> 0, requestedTimeAvailable |-> "null"]
\* What a handler gave its caller: kind "escaped" is an exception that left the
\* handler; msg and listed carry the error text (listed: the times it lists);
\* court: the court the text names.
NoResult == [kind |-> "none", msg |-> "none", listed |-> <<>>, court |-> "none"]
Result(kind, msg) == [kind |-> kind, msg |-> msg, listed |-> <<>>, court |-> "none"]
\* A stored booking (lines 234-241); date = 0 stands for no value.
NoBooking == [court |-> "none", time |-> <<>>, date |-> 0, userEmail |-> <<>>,
              status |-> "none"]
\* today's key in the booking store
Today == NumDays

\* getCorrectDate, lines 191-219: the day the argument names (0: it throws, as
\* new Date(dateInput).toISOString() does for a string that is no date).
GetCorrectDate(d) ==
    CASE d.kind = "none" -> Today + 1
      [] d.kind = "today" -> Today
      [] d.kind = "tomorrow" -> Today + 1
      [] d.kind = "iso" -> d.day
      [] OTHER -> 0

\* A day cell of the date picker's grid; day = 0 stands for no cell.
NoCell == [day |-> 0, outside |-> FALSE]

\* Date.prototype.getMonth() and getDate() of the day d, for days within one
\* year; d = 0 is an invalid Date, whose month and day are NaN.
GetMonth(d) == IF d = 0 THEN -1 ELSE (d - 1) \div MonthLen
GetDate(d) == IF d = 0 THEN 0 ELSE ((d - 1) % MonthLen) + 1

\* lines 305 and 467: targetDate = new Date(correctedDate) in
\* check_tennis_courts, bookDate = new Date(date) in book_and_request_sms
TargetDate(p) ==
    IF tool[p] = "check" THEN GetCorrectDate(date[p])
    ELSE IF date[p].kind = "iso" THEN date[p].day ELSE 0

\* lines 308 and 471: nextMonth = targetDate.getMonth() !== today.getMonth()
NextMonth_Always(p) == TRUE
NextMonth(p) == GetMonth(TargetDate(p)) # GetMonth(Today)

\* The cells of the month the date picker shows: the month's days between the
\* cells that pad the grid with the last day of the month before and the first
\* day of the month after, marked outside-month.
Grid ==
    <<[day |-> MonthLen, outside |-> TRUE]>>
        \o [i \in 1..MonthLen |-> [day |-> i, outside |-> FALSE]]
        \o <<[day |-> 1, outside |-> TRUE]>>

\* lines 317 and 486: .react-datepicker__day--0DD:not(.react-datepicker__day--outside-month)
DaySelector_AnyMonth(c, day) == c.day = day
DaySelector(c, day) == c.day = day /\ ~c.outside

\* locator(daySelector).first(): the first cell of the grid the selector matches
DayCell(day) ==
    LET m == {i \in 1..Len(Grid) : DaySelector(Grid[i], day)}
    IN IF m = {} THEN NoCell ELSE Grid[CHOOSE i \in m : \A j \in m : i <= j]

\* lines 311-317 and 474-487 for the await at stage st that resolved (ok):
\* after the picker opened (picker) the 'right' button is clicked when
\* nextMonth, and after that click (next), or at once, the day cell is clicked.
DateNavigation(p, ok, st, picker, next) ==
    /\ clicks' = IF ok /\ st = picker /\ NextMonth(p)
                 THEN [clicks EXCEPT ![p] = @ + 1] ELSE clicks
    /\ cell' = IF ok /\ (st = next \/ (st = picker /\ ~NextMonth(p)))
               THEN [cell EXCEPT ![p] = DayCell(GetDate(TargetDate(p)))] ELSE cell

\* lines 419, 567, 748: if (!user)
Refused_Never(u) == FALSE
Refused(u) == ~Present(u)

\* The handler of invocation p returns (or throws) res.
Finish(p, res) ==
    /\ pc' = [pc EXCEPT ![p] = "done"]
    /\ result' = [result EXCEPT ![p] = res]

\* The invocation performs the operation op.
Does(p, op) == did' = [did EXCEPT ![p] = @ \cup {op}]

\* lines 421-426, 569-574, 750-755: the authentication-required answer
Refuse(p) ==
    /\ Finish(p, Result("auth_required", "none"))
    /\ UNCHANGED <<sessVars, awaited, joined, seen, caught, pages, time, page, used,
                   times, normalizedTime, did, plist, pidx, days, hi, found>>

\* line 442: page = await this.browser.newPage() is issued
BookNewPage(p) ==
    IF browser = NoBrowser
    THEN \* this.browser is null: the TypeError is caught at line 547, page is unset
         /\ Finish(p, Result("failed", "no_browser"))
         /\ UNCHANGED <<used, did>>
    ELSE /\ pc' = [pc EXCEPT ![p] = "b_newpage"]
         /\ used' = [used EXCEPT ![p] = browser]
         /\ Does(p, "newPage")
         /\ UNCHANGED result

\* book_and_request_sms, lines 416-557.
CallBook(p, t, d) ==
    /\ Quiet
    /\ pc[p] = "idle"
    /\ tool' = [tool EXCEPT ![p] = "book"]
    /\ time' = [time EXCEPT ![p] = t]
    /\ date' = [date EXCEPT ![p] = d]
    /\ EnterAuth(p)
    /\ UNCHANGED <<storeVars, http, clockVars, sessVars, awaited, joined, seen, caught,
                   normVars, pages, page, used, times, normalizedTime, result, did,
                   plist, pidx, days, hi, found, bookings, availability, tb, calls,
                   pageText, court, calVars>>

\* lines 418-442: the gate, then init() when there is no handle, else newPage
BookGate(p) ==
    /\ pc[p] = "authed"
    /\ tool[p] = "book"
    /\ IF Refused(user[p])
       THEN Refuse(p)
       ELSE IF browser = NoBrowser
       THEN /\ EnterInit(p)
            /\ Does(p, "init")
            /\ UNCHANGED <<result, used, pages>>
       ELSE /\ BookNewPage(p)
            /\ UNCHANGED <<sessVars, awaited, joined, seen, caught, pages>>
    /\ UNCHANGED <<tool, storeVars, authVars, http, clockVars, normVars, time, page,
                   times, normalizedTime, plist, pidx, days, hi, found, bookings, pubVars>>

\* lines 434-442: init() returned or threw (it is called outside the try)
BookAfterInit(p) ==
    /\ pc[p] \in {"init_ret", "init_thrown"}
    /\ tool[p] = "book"
    /\ IF pc[p] = "init_thrown"
       THEN Finish(p, Result("escaped", caught[p])) /\ UNCHANGED <<used, did>>
       ELSE BookNewPage(p)
    /\ UNCHANGED <<tool, awaited, joined, seen, caught, sessVars, storeVars, authVars,
                   http, clockVars, normVars, pages, time, page, times, normalizedTime,
                   plist, pidx, days, hi, found, bookings, pubVars>>

\* The operation each await of the try block waits for, in order: newPage
\* (442), navigation, site login and court (446-464), the date picker opened
\* (474-477), the 'right' button (481-482), the day cell (486-488), slot text
\* (491-492), slot click (508), duration (511-513), participant (516-517),
\* code request (520-523), verification input (525).
BookStages == <<"b_newpage", "b_nav", "b_picker", "b_next", "b_date", "b_read",
                "b_slot", "b_duration", "b_participant", "b_sendcode", "b_totp">>
BookOps == <<"newPage", "nav", "picker", "next", "date", "read", "clickSlot",
             "duration", "participant", "sendCode", "totp">>
StageIndex(st) == CHOOSE i \in 1..Len(BookStages) : BookStages[i] = st

\* The browser and the page the invocation drives can still answer.
Drivable(p) ==
    /\ used[p] \in live
    /\ page[p] # 0 => pages[page[p]].st = "open"

\* lines 547-555: catch (error) { if (page) await page.close(); return ... }
BookCatch(p, res) ==
    IF page[p] # 0
    THEN /\ pc' = [pc EXCEPT ![p] = "b_close"]
         /\ result' = [result EXCEPT ![p] = res]
         /\ Does(p, "closePage")
    ELSE /\ Finish(p, res)
         /\ UNCHANGED did

\* lines 494-505: normalizedTime, and the test that lets the booking go on
SlotListed(text, t) == StringIncludes(text, t)

\* An awaited operation of the try block settles: it resolved (ok; text is the
\* slot text the page shows, used by the read) or it threw.
BookStep(p, ok, text) ==
    LET i == StageIndex(pc[p])
        st == pc[p]
    IN
    /\ Quiet
    /\ pc[p] \in {BookStages[j] : j \in 1..Len(BookStages)}
    /\ ok => Drivable(p)
    /\ st # "b_read" => text = <<>>
    /\ (ok /\ st = "b_date") => cell[p] # NoCell
    /\ DateNavigation(p, ok, st, "b_picker", "b_next")
    /\ IF ~ok
       THEN /\ BookCatch(p, Result("failed", "site"))
            /\ UNCHANGED <<pages, page, times, normalizedTime>>
       ELSE IF st = "b_newpage"
       THEN \* the page exists; line 446 is issued
            /\ \E q \in PageIds : pages[q].st = "unused"
            /\ LET q == CHOOSE x \in PageIds :
                          pages[x].st = "unused" /\
                          \A y \in PageIds : pages[y].st = "unused" => x <= y
               IN /\ pages' = [pages EXCEPT ![q] =
                                 [st |-> "open", h |-> used[p], totp |-> FALSE]]
                  /\ page' = [page EXCEPT ![p] = q]
            /\ pc' = [pc EXCEPT ![p] = BookStages[i + 1]]
            /\ Does(p, BookOps[i + 1])
            /\ UNCHANGED <<result, times, normalizedTime>>
       ELSE IF st = "b_read"
       THEN \* lines 492-508
            /\ times' = [times EXCEPT ![p] = text]
            /\ normalizedTime' = [normalizedTime EXCEPT ![p] = NormalizeTime(time[p])]
            /\ IF ~SlotListed(text, NormalizeTime(time[p]))
               THEN \* line 504
                    BookCatch(p, [kind |-> "failed", msg |-> "not_available",
                                  listed |-> text, court |-> "none"])
               ELSE /\ pc' = [pc EXCEPT ![p] = BookStages[i + 1]]
                    /\ Does(p, BookOps[i + 1])
                    /\ UNCHANGED result
            /\ UNCHANGED <<pages, page>>
       ELSE IF st = "b_picker" /\ ~NextMonth(p)
       THEN \* line 479: nextMonth is false, the day cell is clicked at once
            /\ pc' = [pc EXCEPT ![p] = "b_date"]
            /\ Does(p, "date")
            /\ UNCHANGED <<result, pages, page, times, normalizedTime>>
       ELSE IF st = "b_totp"
       THEN \* lines 525-545: the page stays open at the verification step
            /\ pages' = [pages EXCEPT ![page[p]].totp = TRUE]
            /\ Finish(p, Result("sms_requested", "none"))
            /\ UNCHANGED <<page, did, times, normalizedTime>>
       ELSE /\ pc' = [pc EXCEPT ![p] = BookStages[i + 1]]
            /\ Does(p, BookOps[i + 1])
            /\ UNCHANGED <<result, pages, page, times, normalizedTime>>
    /\ UNCHANGED <<tool, awaited, joined, seen, caught, sessVars, storeVars, authVars,
                   http, clockVars, normVars, time, used, plist, pidx, days, hi, found,
                   bookings, date, availability, tb, calls, pageText, court>>

\* line 548 settles: page.close() resolved, or it threw out of the catch block.
BookCloseSettles(p, ok) ==
    /\ Quiet
    /\ pc[p] = "b_close"
    /\ IF ok
       THEN /\ pages' = [pages EXCEPT ![page[p]].st = "closed"]
            /\ Finish(p, result[p])
       ELSE /\ pages' = pages
            /\ Finish(p, Result("escaped", "close"))
    /\ UNCHANGED <<tool, awaited, joined, seen, caught, sessVars, storeVars, authVars,
                   http, clockVars, normVars, time, page, used, times, normalizedTime,
                   did, plist, pidx, days, hi, found, bookings, pubVars>>

\* enter_sms_code_and_complete, lines 564-689.
CallEnter(p) ==
    /\ Quiet
    /\ pc[p] = "idle"
    /\ tool' = [tool EXCEPT ![p] = "enter"]
    /\ EnterAuth(p)
    /\ UNCHANGED <<storeVars, http, clockVars, sessVars, awaited, joined, seen, caught,
                   normVars, pages, toolVars, bookings, pubVars>>

\* this.browser.contexts()[0]?.pages(): browser.newPage() gives every page a
\* context of its own, closed with the page, so the first context is that of
\* the oldest page of the browser still open and holds that page alone.
FirstContextPages(h) ==
    LET open == {q \in PageIds : pages[q].st = "open" /\ pages[q].h = h}
    IN SortedSeq({q \in open : \A r \in open : q <= r})

\* lines 583-616: the pages are listed and the probe of the first one is issued
EnterProbe(p) ==
    IF browser = NoBrowser
    THEN \* the TypeError is caught at line 681
         /\ Finish(p, Result("error", "no_browser"))
         /\ UNCHANGED <<used, did, plist, pidx>>
    ELSE IF FirstContextPages(browser) = <<>>
    THEN /\ Finish(p, Result("no_page", "none"))
         /\ used' = [used EXCEPT ![p] = browser]
         /\ Does(p, "listPages")
         /\ UNCHANGED <<plist, pidx>>
    ELSE /\ pc' = [pc EXCEPT ![p] = "e_probe"]
         /\ used' = [used EXCEPT ![p] = browser]
         /\ plist' = [plist EXCEPT ![p] = FirstContextPages(browser)]
         /\ pidx' = [pidx EXCEPT ![p] = 1]
         /\ Does(p, "listPages")
         /\ UNCHANGED result

\* lines 566-585
EnterGate(p) ==
    /\ pc[p] = "authed"
    /\ tool[p] = "enter"
    /\ IF Refused(user[p])
       THEN Refuse(p)
       ELSE IF browser = NoBrowser
       THEN /\ EnterInit(p)
            /\ Does(p, "init")
            /\ UNCHANGED <<result, used, pages, plist, pidx>>
       ELSE /\ EnterProbe(p)
            /\ UNCHANGED <<sessVars, awaited, joined, seen, caught, pages>>
    /\ UNCHANGED <<tool, storeVars, authVars, http, clockVars, normVars, time, page,
                   times, normalizedTime, days, hi, found, bookings, pubVars>>

\* lines 580-585: init() returned or threw (it is called outside the try)
EnterAfterInit(p) ==
    /\ pc[p] \in {"init_ret", "init_thrown"}
    /\ tool[p] = "enter"
    /\ IF pc[p] = "init_thrown"
       THEN Finish(p, Result("escaped", caught[p])) /\ UNCHANGED <<used, did, plist, pidx>>
       ELSE EnterProbe(p)
    /\ UNCHANGED <<tool, awaited, joined, seen, caught, sessVars, storeVars, authVars,
                   http, clockVars, normVars, pages, time, page, times, normalizedTime,
                   days, hi, found, bookings, pubVars>>

\* line 591 settles for the page the loop is at: isVisible, false on any error
EnterProbeSettles(p) ==
    LET q == plist[p][pidx[p]]
        hasTotp == pages[q].st = "open" /\ pages[q].totp
    IN
    /\ Quiet
    /\ pc[p] = "e_probe"
    /\ IF hasTotp
       THEN \* lines 592-622: the code is typed into this page
            /\ page' = [page EXCEPT ![p] = q]
            /\ pc' = [pc EXCEPT ![p] = "e_type"]
            /\ Does(p, "typeCode")
            /\ UNCHANGED <<result, pidx>>
       ELSE IF pidx[p] = Len(plist[p])
       THEN \* lines 602-616
            /\ Finish(p, Result("no_page", "none"))
            /\ UNCHANGED <<page, did, pidx>>
       ELSE /\ pidx' = [pidx EXCEPT ![p] = pidx[p] + 1]
            /\ UNCHANGED <<pc, page, did, result>>
    /\ UNCHANGED <<tool, awaited, joined, seen, caught, sessVars, storeVars, authVars,
                   http, clockVars, normVars, pages, time, used, times, normalizedTime,
                   plist, days, hi, found, bookings, pubVars>>

\* lines 622-635 settle: the code is typed (then Confirm is clicked), Confirm is
\* clicked (then the success text is awaited), or the step threw (line 681).
EnterStep(p, ok) ==
    /\ Quiet
    /\ pc[p] \in {"e_type", "e_confirm"}
    /\ ok => Drivable(p)
    /\ IF ~ok
       THEN Finish(p, Result("error", "site")) /\ UNCHANGED did
       ELSE IF pc[p] = "e_type"
       THEN /\ pc' = [pc EXCEPT ![p] = "e_confirm"]
            /\ Does(p, "confirm")
            /\ UNCHANGED result
       ELSE /\ pc' = [pc EXCEPT ![p] = "e_wait"]
            /\ Does(p, "awaitSuccess")
            /\ UNCHANGED result
    /\ UNCHANGED <<tool, awaited, joined, seen, caught, sessVars, storeVars, authVars,
                   http, clockVars, normVars, pages, time, page, used, times,
                   normalizedTime, plist, pidx, days, hi, found, bookings, pubVars>>

\* line 639 settles: "You're all set!" appeared (lines 640-652), or the wait
\* threw and the page text is read (line 660); stays: the page still shows the
\* verification input afterwards.
EnterWaitSettles(p, success, stays) ==
    /\ Quiet
    /\ pc[p] = "e_wait"
    /\ success => (Drivable(p) /\ ~stays)
    /\ pages' = [pages EXCEPT ![page[p]].totp = stays /\ pages[page[p]].totp]
    /\ IF success
       THEN Finish(p, Result("completed", "none")) /\ UNCHANGED did
       ELSE /\ pc' = [pc EXCEPT ![p] = "e_text"]
            /\ Does(p, "readBody")
            /\ UNCHANGED result
    /\ UNCHANGED <<tool, awaited, joined, seen, caught, sessVars, storeVars, authVars,
                   http, clockVars, normVars, time, page, used, times, normalizedTime,
                   plist, pidx, days, hi, found, bookings, pubVars>>

\* line 661: the text that tells the reservation conflict
ReservedIndicator ==
    <<"C", "o", "u", "r", "t", " ", "a", "l", "r", "e", "a", "d", "y", " ",
      "r", "e", "s", "e", "r", "v", "e", "d", " ", "a", "t", " ", "t", "h", "i", "s",
      " ", "t", "i", "m", "e">>

\* lines 661-678: the failure text for the page text read
EnterFailure_AssertsFailed(text) ==
    IF StringIncludes(text, ReservedIndicator)
    THEN Result("already_reserved", "none")
    ELSE Result("failed", "none")
EnterFailure(text) ==
    IF StringIncludes(text, ReservedIndicator)
    THEN Result("already_reserved", "none")
    ELSE Result("timeout", "none")

\* line 660 settles: text is the body text, or '' when reading it threw.
EnterTextSettles(p, text) ==
    /\ Quiet
    /\ pc[p] = "e_text"
    /\ text # <<>> => Drivable(p)
    /\ pageText' = [pageText EXCEPT ![p] = text]
    /\ Finish(p, EnterFailure(text))
    /\ UNCHANGED <<tool, awaited, joined, seen, caught, sessVars, storeVars, authVars,
                   http, clockVars, normVars, pages, time, page, used, times,
                   normalizedTime, did, plist, pidx, days, hi, found, bookings, date,
                   availability, tb, calls, court, calVars>>

\* get_booking_history, lines 745-812.
CallHistory(p, n) ==
    /\ Quiet
    /\ pc[p] = "idle"
    /\ tool' = [tool EXCEPT ![p] = "history"]
    /\ days' = [days EXCEPT ![p] = n]
    /\ EnterAuth(p)
    /\ UNCHANGED <<storeVars, http, clockVars, sessVars, awaited, joined, seen, caught,
                   normVars, pages, time, page, used, times, normalizedTime, result,
                   did, plist, pidx, hi, found, bookings, pubVars>>

\* lines 747-768: the gate, then the first KV.get of the loop
HistoryGate(p) ==
    /\ pc[p] = "authed"
    /\ tool[p] = "history"
    /\ IF Refused(user[p])
       THEN Refuse(p)
       ELSE /\ IF days[p] <= 0
               THEN Finish(p, Result("history", "none")) /\ UNCHANGED did
               ELSE /\ pc' = [pc EXCEPT ![p] = "h_get"]
                    /\ Does(p, "bookingRead")
                    /\ UNCHANGED result
            /\ hi' = [hi EXCEPT ![p] = 0]
            /\ found' = [found EXCEPT ![p] = <<>>]
            /\ UNCHANGED <<sessVars, awaited, joined, seen, caught, pages, time, page,
                           used, times, normalizedTime, plist, pidx, days>>
    /\ UNCHANGED <<tool, storeVars, authVars, http, clockVars, normVars, bookings, pubVars>>

\* lines 770-775: a value is stored (bookingData is truthy) and
\* booking.userEmail === user.email
Mine_AnySubject(b, u) == b.date # 0
Mine(b, u) == b.date # 0 /\ b.userEmail = u.email

\* saveBookingToKV, lines 232-251, called for day d by subject email e: the
\* record is put under booking:<date>, or the put throws and is logged.
SaveBookingToKV(c, t, d, e, ok) ==
    /\ Quiet
    /\ IF ok
       THEN bookings' = [bookings EXCEPT ![d] =
                [court |-> c, time |-> t, date |-> d, userEmail |-> e,
                 status |-> "completed"]]
       ELSE bookings' = bookings
    /\ UNCHANGED <<clockVars, sessVars, procVars, storeVars, authVars, http, normVars,
                   pages, toolVars, pubVars>>

\* line 768 settles for the day today - i: the stored value, or the store throws
HistoryGetSettles(p, ok) ==
    LET d == Today - hi[p]
        b == IF d \in Days THEN bookings[d] ELSE NoBooking
        mine == Mine(b, user[p])
    IN
    /\ Quiet
    /\ pc[p] = "h_get"
    /\ IF ~ok
       THEN \* lines 804-811
            Finish(p, Result("error", "store")) /\ UNCHANGED <<hi, found, did>>
       ELSE /\ found' = [found EXCEPT ![p] = IF mine THEN Append(@, d) ELSE @]
            /\ hi' = [hi EXCEPT ![p] = hi[p] + 1]
            /\ IF hi[p] + 1 < days[p]
               THEN UNCHANGED <<pc, result, did>>
               ELSE Finish(p, Result("history", "none")) /\ UNCHANGED did
    /\ UNCHANGED <<tool, awaited, joined, seen, caught, sessVars, storeVars, authVars,
                   http, clockVars, normVars, pages, time, page, used, times,
                   normalizedTime, plist, pidx, days, bookings, pubVars>>

\* lines 324-325: availableTimes, the lines of the text that hold a colon
AvailableTimes(text) ==
    LET parts == Split(text, "\n")
    IN SelectSeq(parts, LAMBDA slot : StringIncludes(slot, <<":">>))

\* lines 328-334: availability when the slots were read; t is the argument time
Available(text, t) ==
    [set |-> TRUE, error |-> "none", availableTimes |-> AvailableTimes(text),
     totalSlots |-> Len(AvailableTimes(text)),
     requestedTimeAvailable |->
        IF t = <<>> THEN "null"
        ELSE IF \E i \in 1..Len(AvailableTimes(text)) :
                    StringIncludes(AvailableTimes(text)[i], t)
        THEN "true" ELSE "false"]

\* lines 335-345: availability when a step of the inner try threw
Unavailable(e) ==
    [set |-> TRUE, error |-> e, availableTimes |-> <<>>, totalSlots |-> 0,
     requestedTimeAvailable |-> "null"]

\* check_tennis_courts, lines 271-405 (no authorization gate). Line 281 runs
\* before the try; line 285 enters init().
CallCheck(p, c, d, t) ==
    /\ Quiet
    /\ pc[p] = "idle"
    /\ tool' = [tool EXCEPT ![p] = "check"]
    /\ court' = [court EXCEPT ![p] = c]
    /\ date' = [date EXCEPT ![p] = d]
    /\ time' = [time EXCEPT ![p] = t]
    /\ IF GetCorrectDate(d) = 0
       THEN /\ Finish(p, Result("escaped", "date"))
            /\ UNCHANGED <<sessVars, awaited, joined, seen, caught, did>>
       ELSE /\ EnterInit(p)
            /\ Does(p, "init")
            /\ UNCHANGED result
    /\ UNCHANGED <<storeVars, authVars, http, clockVars, normVars, pages, page, used,
                   times, normalizedTime, plist, pidx, days, hi, found, bookings,
                   availability, tb, calls, pageText, calVars>>

\* lines 285-292: init() threw (outer catch, lines 395-403), or it returned and
\* the handle is null (lines 287-291), or newPage is issued on the handle.
CheckAfterInit(p) ==
    /\ pc[p] \in {"init_ret", "init_thrown"}
    /\ tool[p] = "check"
    /\ IF pc[p] = "init_thrown"
       THEN Finish(p, Result("error", caught[p])) /\ UNCHANGED <<used, did>>
       ELSE IF browser = NoBrowser
       THEN Finish(p, Result("init_failed", "none")) /\ UNCHANGED <<used, did>>
       ELSE /\ pc' = [pc EXCEPT ![p] = "c_newpage"]
            /\ used' = [used EXCEPT ![p] = browser]
            /\ Does(p, "newPage")
            /\ UNCHANGED result
    /\ UNCHANGED <<tool, awaited, joined, seen, caught, sessVars, storeVars, authVars,
                   http, clockVars, normVars, pages, time, page, times, normalizedTime,
                   plist, pidx, days, hi, found, bookings, pubVars>>

\* The awaits of check_tennis_courts on the browser, in order: newPage (292),
\* goto (295), then inside the inner try the court (302-303), the date picker
\* opened (311), the 'right' button (314-316), the day cell (319-320) and the
\* slots (323-327), then page.close() (348).
CheckStages == <<"c_newpage", "c_goto", "c_court", "c_picker", "c_next", "c_date",
                 "c_read", "c_close">>
CheckOps == <<"newPage", "nav", "court", "picker", "next", "date", "read",
              "closePage">>
CheckIndex(st) == CHOOSE i \in 1..Len(CheckStages) : CheckStages[i] = st

\* One of these awaits settles: it resolved (ok; text: the slot text read) or
\* it threw.
CheckStep(p, ok, text) ==
    LET st == pc[p]
        i == CheckIndex(st)
        inner == st \in {"c_court", "c_picker", "c_next", "c_date", "c_read"}
    IN
    /\ Quiet
    /\ pc[p] \in {CheckStages[j] : j \in 1..Len(CheckStages)}
    /\ ok => Drivable(p)
    /\ (st # "c_read" \/ ~ok) => text = <<>>
    /\ (ok /\ st = "c_date") => cell[p] # NoCell
    /\ DateNavigation(p, ok, st, "c_picker", "c_next")
    /\ IF ~ok /\ ~inner
       THEN \* outer catch, lines 395-403
            /\ Finish(p, Result("error", "site"))
            /\ UNCHANGED <<pages, page, times, availability, did>>
       ELSE IF ~ok
       THEN \* inner catch, lines 335-345, then line 348
            /\ availability' = [availability EXCEPT ![p] = Unavailable("site")]
            /\ pc' = [pc EXCEPT ![p] = "c_close"]
            /\ Does(p, "closePage")
            /\ UNCHANGED <<pages, page, times, result>>
       ELSE IF st = "c_newpage"
       THEN /\ \E q \in PageIds : pages[q].st = "unused"
            /\ LET q == CHOOSE x \in PageIds :
                          pages[x].st = "unused" /\
                          \A y \in PageIds : pages[y].st = "unused" => x <= y
               IN /\ pages' = [pages EXCEPT ![q] =
                                 [st |-> "open", h |-> used[p], totp |-> FALSE]]
                  /\ page' = [page EXCEPT ![p] = q]
            /\ pc' = [pc EXCEPT ![p] = "c_goto"]
            /\ Does(p, "nav")
            /\ UNCHANGED <<times, availability, result>>
       ELSE IF st = "c_picker" /\ ~NextMonth(p)
       THEN \* line 314: nextMonth is false, the day cell is clicked at once
            /\ pc' = [pc EXCEPT ![p] = "c_date"]
            /\ Does(p, "date")
            /\ UNCHANGED <<pages, page, times, availability, result>>
       ELSE IF st = "c_read"
       THEN \* lines 324-334, then line 348
            /\ times' = [times EXCEPT ![p] = text]
            /\ availability' = [availability EXCEPT ![p] = Available(text, time[p])]
            /\ pc' = [pc EXCEPT ![p] = "c_close"]
            /\ Does(p, "closePage")
            /\ UNCHANGED <<pages, page, result>>
       ELSE IF st = "c_close"
       THEN \* line 348 resolved; AI.run is issued (line 372)
            /\ pages' = [pages EXCEPT ![page[p]].st = "closed"]
            /\ pc' = [pc EXCEPT ![p] = "c_ai"]
            /\ Does(p, "summarize")
            /\ UNCHANGED <<page, times, availability, result>>
       ELSE /\ pc' = [pc EXCEPT ![p] = CheckStages[i + 1]]
            /\ Does(p, CheckOps[i + 1])
            /\ UNCHANGED <<pages, page, times, availability, result>>
    /\ UNCHANGED <<tool, awaited, joined, seen, caught, sessVars, storeVars, authVars,
                   http, clockVars, normVars, time, used, normalizedTime, plist, pidx,
                   days, hi, found, bookings, date, tb, calls, pageText, court>>

\* line 294: targetCourt = court || 'DuPont'
TargetCourt(c) == IF c = "none" THEN "DuPont" ELSE c

\* lines 375-386: the text when AI.run threw
Fallback(c, a) ==
    IF a.error # "none"
    THEN [kind |-> "fallback_error", msg |-> a.error, listed |-> <<>>,
          court |-> TargetCourt(c)]
    ELSE IF a.totalSlots = 0
    THEN [kind |-> "fallback_none", msg |-> "none", listed |-> <<>>,
          court |-> TargetCourt(c)]
    ELSE [kind |-> "fallback_slots", msg |-> "none", listed |-> a.availableTimes,
          court |-> TargetCourt(c)]

\* line 372 settles: AI.run gave a text (lines 373, 389-394), gave no text
\* (line 373: the fixed sentence after ||), or threw (the fallback text).
CheckSummarySettles(p, outcome) ==
    /\ Quiet
    /\ pc[p] = "c_ai"
    /\ CASE outcome = "text" -> Finish(p, Result("summary", availability[p].error))
         [] outcome = "empty" -> Finish(p, Result("default", "none"))
         [] OTHER -> Finish(p, Fallback(court[p], availability[p]))
    /\ UNCHANGED <<tool, awaited, joined, seen, caught, sessVars, storeVars, authVars,
                   http, clockVars, normVars, pages, time, page, used, times,
                   normalizedTime, did, plist, pidx, days, hi, found, bookings, pubVars>>

\* test_browser, lines 696-736: launch() is issued for a browser of its own.
CallTestBrowser(p) ==
    /\ Quiet
    /\ pc[p] = "idle"
    /\ tool' = [tool EXCEPT ![p] = "test"]
    /\ pc' = [pc EXCEPT ![p] = "t_launch"]
    /\ Does(p, "launch")
    /\ UNCHANGED <<awaited, joined, seen, caught, sessVars, storeVars, authVars, http,
                   clockVars, normVars, pages, time, page, used, times, normalizedTime,
                   result, plist, pidx, days, hi, found, bookings, pubVars>>

\* The awaits of test_browser, in order: launch (704), newPage (705), goto
\* (706), title (707), browser.close() (708).
TestStages == <<"t_launch", "t_newpage", "t_goto", "t_title", "t_close">>
TestOps == <<"launch", "newPage", "nav", "title", "closeBrowser">>
TestIndex(st) == CHOOSE i \in 1..Len(TestStages) : TestStages[i] = st

\* One of these awaits settles: it resolved (ok), or it threw and the catch of
\* lines 720-735 returns the diagnostic text, the local browser left as it is.
TestStep(p, ok) ==
    LET st == pc[p]
        i == TestIndex(st)
    IN
    /\ Quiet
    /\ pc[p] \in {TestStages[j] : j \in 1..Len(TestStages)}
    /\ (ok /\ st = "t_launch") => (hasBinding /\ launched < MaxAcq)
    /\ (ok /\ st # "t_launch") => tb[p] \in live
    /\ (ok /\ st \in {"t_goto", "t_title"}) => pages[page[p]].st = "open"
    /\ IF ~ok
       THEN /\ Finish(p, Result("test_failed", "site"))
            /\ UNCHANGED <<pages, page, tb, live, launched, did>>
       ELSE IF st = "t_launch"
       THEN /\ launched' = launched + 1
            /\ live' = live \cup {launched + 1}
            /\ tb' = [tb EXCEPT ![p] = launched + 1]
            /\ pc' = [pc EXCEPT ![p] = "t_newpage"]
            /\ Does(p, "newPage")
            /\ UNCHANGED <<pages, page, result>>
       ELSE IF st = "t_newpage"
       THEN /\ \E q \in PageIds : pages[q].st = "unused"
            /\ LET q == CHOOSE x \in PageIds :
                          pages[x].st = "unused" /\
                          \A y \in PageIds : pages[y].st = "unused" => x <= y
               IN /\ pages' = [pages EXCEPT ![q] =
                                 [st |-> "open", h |-> tb[p], totp |-> FALSE]]
                  /\ page' = [page EXCEPT ![p] = q]
            /\ pc' = [pc EXCEPT ![p] = "t_goto"]
            /\ Does(p, "nav")
            /\ UNCHANGED <<tb, live, launched, result>>
       ELSE IF st = "t_close"
       THEN \* lines 708-719: the local browser and its pages are gone
            /\ live' = live \ {tb[p]}
            /\ pages' = [q \in PageIds |->
                           IF pages[q].st = "open" /\ pages[q].h = tb[p]
                           THEN [pages[q] EXCEPT !.st = "closed"] ELSE pages[q]]
            /\ Finish(p, Result("test_ok", "none"))
            /\ UNCHANGED <<page, tb, launched, did>>
       ELSE /\ pc' = [pc EXCEPT ![p] = TestStages[i + 1]]
            /\ Does(p, TestOps[i + 1])
            /\ UNCHANGED <<pages, page, tb, live, launched, result>>
    /\ UNCHANGED <<tool, awaited, joined, seen, caught, hasBinding, browser,
                   lastBrowserInit, isInitializing, initPromise, promises, storeVars,
                   authVars, http, clockVars, normVars, time, used, times,
                   normalizedTime, plist, pidx, days, hi, found, bookings, date,
                   availability, calls, pageText, court, calVars>>

\* cleanup(), lines 175-185: with a handle, browser.close() is issued; without
\* one it returns at once.
CallCleanup(p) ==
    /\ Quiet
    /\ pc[p] = "idle"
    /\ calls[p] < MaxCalls
    /\ tool' = [tool EXCEPT ![p] = "cleanup"]
    /\ IF browser # NoBrowser
       THEN /\ pc' = [pc EXCEPT ![p] = "cl_close"]
            /\ used' = [used EXCEPT ![p] = browser]
            /\ Does(p, "closeBrowser")
            /\ UNCHANGED result
       ELSE /\ Finish(p, Result("void", "none"))
            /\ UNCHANGED <<used, did>>
    /\ UNCHANGED <<awaited, joined, seen, caught, sessVars, storeVars, authVars, http,
                   clockVars, normVars, pages, time, page, times, normalizedTime,
                   plist, pidx, days, hi, found, bookings, pubVars>>

\* line 178 settles: the close resolved (lines 179-180) or threw (lines
\* 181-183: logged, the fields left as they are).
CleanupCloseSettles(p, ok) ==
    /\ Quiet
    /\ pc[p] = "cl_close"
    /\ IF ok
       THEN /\ live' = live \ {used[p]}
            /\ pages' = [q \in PageIds |->
                           IF pages[q].st = "open" /\ pages[q].h = used[p]
                           THEN [pages[q] EXCEPT !.st = "closed"] ELSE pages[q]]
            /\ browser' = NoBrowser
            /\ lastBrowserInit' = 0
       ELSE UNCHANGED <<live, pages, browser, lastBrowserInit>>
    /\ Finish(p, Result("void", "none"))
    /\ UNCHANGED <<tool, awaited, joined, seen, caught, hasBinding, isInitializing,
                   initPromise, promises, launched, storeVars, authVars, http,
                   clockVars, normVars, time, page, used, times, normalizedTime, did,
                   plist, pidx, days, hi, found, bookings, pubVars>>

\* The handler's answer has gone to the caller; the invocation is over.
ToolReturns(p) ==
    /\ pc[p] = "done"
    /\ pc' = [pc EXCEPT ![p] = "idle"]
    /\ tool' = [tool EXCEPT ![p] = "none"]
    /\ awaited' = [awaited EXCEPT ![p] = NoPromise]
    /\ joined' = [joined EXCEPT ![p] = NoPromise]
    /\ seen' = [seen EXCEPT ![p] = NoBrowser]
    /\ caught' = [caught EXCEPT ![p] = "none"]
    /\ keys' = [keys EXCEPT ![p] = <<>>]
    /\ idx' = [idx EXCEPT ![p] = 0]
    /\ user' = [user EXCEPT ![p] = NoUser]
    /\ authAt' = [authAt EXCEPT ![p] = 0]
    /\ authErr' = [authErr EXCEPT ![p] = FALSE]
    /\ time' = [time EXCEPT ![p] = <<>>]
    /\ page' = [page EXCEPT ![p] = 0]
    /\ used' = [used EXCEPT ![p] = NoBrowser]
    /\ times' = [times EXCEPT ![p] = <<>>]
    /\ normalizedTime' = [normalizedTime EXCEPT ![p] = <<>>]
    /\ result' = [result EXCEPT ![p] = NoResult]
    /\ did' = [did EXCEPT ![p] = {}]
    /\ plist' = [plist EXCEPT ![p] = <<>>]
    /\ pidx' = [pidx EXCEPT ![p] = 0]
    /\ days' = [days EXCEPT ![p] = 0]
    /\ hi' = [hi EXCEPT ![p] = 0]
    /\ found' = [found EXCEPT ![p] = <<>>]
    /\ date' = [date EXCEPT ![p] = NoDate]
    /\ availability' = [availability EXCEPT ![p] = NoAvailability]
    /\ tb' = [tb EXCEPT ![p] = NoBrowser]
    /\ calls' = [calls EXCEPT ![p] = IF tool[p] = "cleanup" THEN @ + 1 ELSE 0]
    /\ pageText' = [pageText EXCEPT ![p] = <<>>]
    /\ court' = [court EXCEPT ![p] = "none"]
    /\ clicks' = [clicks EXCEPT ![p] = 0]
    /\ cell' = [cell EXCEPT ![p] = NoCell]
    /\ UNCHANGED <<sessVars, storeVars, http, clockVars, normVars, pages, bookings>>

\* The clock advances between tasks.
SessionSteps == {1, BROWSER_TIMEOUT - 1}
AuthSteps == {1, SESSION_MAX_AGE - 1}
Tick(d) ==
    /\ Quiet
    /\ ticks < MaxTicks
    /\ now' = now + d
    /\ ticks' = ticks + 1
    /\ UNCHANGED <<sessVars, procVars, notSession, pages>>

\* Configurations of env.AUTHORIZED_USER_EMAILS, and the emails requests carry.
\* text: the configured string; entries: the addresses it lists.
AllowConfigs ==
    {[text |-> <<"A", ",", " ", "b">>, entries |-> {<<"A">>, <<"b">>}],
     [text |-> <<" ", "c", " ", ",", "a">>, entries |-> {<<"c">>, <<"a">>}]}
AllowLists == {cfg.text : cfg \in AllowConfigs}
\* Each subject signs in with its own email address.
Bodies ==
    {[json |-> FALSE, hasEmail |-> FALSE, email |-> <<>>, userId |-> 0],
     [json |-> TRUE, hasEmail |-> FALSE, email |-> <<>>, userId |-> 1],
     [json |-> TRUE, hasEmail |-> TRUE, email |-> <<"a">>, userId |-> 1],
     [json |-> TRUE, hasEmail |-> TRUE, email |-> <<"B">>, userId |-> 2],
     [json |-> TRUE, hasEmail |-> TRUE, email |-> <<"c">>, userId |-> 1],
     [json |-> TRUE, hasEmail |-> TRUE, email |-> <<" ", "a">>, userId |-> 2]}
Methods == {"POST", "GET", "OPTIONS"}

Init ==
    /\ now = 0
    /\ ticks = 0
    /\ hasBinding \in BOOLEAN
    /\ browser = NoBrowser
    /\ lastBrowserInit = 0
    /\ isInitializing = FALSE
    /\ initPromise = NoPromise
    /\ promises = [k \in AcqIds |-> FreshPromise]
    /\ live = {}
    /\ launched = 0
    /\ pc = [p \in Procs |-> "idle"]
    /\ tool = [p \in Procs |-> "none"]
    /\ awaited = [p \in Procs |-> NoPromise]
    /\ joined = [p \in Procs |-> NoPromise]
    /\ seen = [p \in Procs |-> NoBrowser]
    /\ caught = [p \in Procs |-> "none"]
    /\ allowList \in AllowLists
    /\ kv = [u \in Users |-> NoUser]
    /\ keys = [p \in Procs |-> <<>>]
    /\ idx = [p \in Procs |-> 0]
    /\ user = [p \in Procs |-> NoUser]
    /\ authAt = [p \in Procs |-> 0]
    /\ authErr = [p \in Procs |-> FALSE]
    /\ http = NoHttp
    /\ normIn = <<>>
    /\ normOut = <<>>
    /\ normDone = FALSE
    /\ pages = [i \in PageIds |-> NoPage]
    /\ time = [p \in Procs |-> <<>>]
    /\ page = [p \in Procs |-> 0]
    /\ used = [p \in Procs |-> NoBrowser]
    /\ times = [p \in Procs |-> <<>>]
    /\ normalizedTime = [p \in Procs |-> <<>>]
    /\ result = [p \in Procs |-> NoResult]
    /\ did = [p \in Procs |-> {}]
    /\ plist = [p \in Procs |-> <<>>]
    /\ pidx = [p \in Procs |-> 0]
    /\ bookings = [d \in Days |-> NoBooking]
    /\ days = [p \in Procs |-> 0]
    /\ hi = [p \in Procs |-> 0]
    /\ found = [p \in Procs |-> <<>>]
    /\ date = [p \in Procs |-> NoDate]
    /\ availability = [p \in Procs |-> NoAvailability]
    /\ tb = [p \in Procs |-> NoBrowser]
    /\ calls = [p \in Procs |-> 0]
    /\ pageText = [p \in Procs |-> <<>>]
    /\ court = [p \in Procs |-> "none"]
    /\ clicks = [p \in Procs |-> 0]
    /\ cell = [p \in Procs |-> NoCell]

\* Time arguments: every string over TimeChars up to MaxTimeLen characters, and
\* the forms callers write.
TimeChars == {"1", "2", ":", " ", "a", "p", "m", "P", "M"}
RECURSIVE StringsUpTo(_)
StringsUpTo(n) ==
    IF n = 0 THEN {<<>>}
    ELSE LET shorter == StringsUpTo(n - 1)
         IN shorter \cup {Append(x, c) : x \in shorter, c \in TimeChars}
TimeExamples ==
    {<<"2", "p", "m">>, <<"2", "P", "M">>, <<"2", " ", "p", "m">>,
     <<"2", ":", "0", "0", " ", "P", "M">>, <<"2", ":", "0", "0", " ", "p", "m">>,
     <<"2", ":", "0", "0", "p", "m">>, <<"1", "2", "a", "m">>,
     <<"1", "0", ":", "3", "0", " ", "A", "M">>, <<"9", ":", "0", "0", " ", "P", "M">>,
     <<"1", ":", "0", "0", " ", "A", "M">>, <<"1", "1", " ", "A", "M">>}
TimeInputs == StringsUpTo(MaxTimeLen) \cup TimeExamples

InitNorm ==
    /\ normIn \in TimeInputs
    /\ normOut = <<>>
    /\ normDone = FALSE
    /\ now = 0
    /\ ticks = 0
    /\ hasBinding = TRUE
    /\ browser = NoBrowser
    /\ lastBrowserInit = 0
    /\ isInitializing = FALSE
    /\ initPromise = NoPromise
    /\ promises = [k \in AcqIds |-> FreshPromise]
    /\ live = {}
    /\ launched = 0
    /\ pc = [p \in Procs |-> "idle"]
    /\ tool = [p \in Procs |-> "none"]
    /\ awaited = [p \in Procs |-> NoPromise]
    /\ joined = [p \in Procs |-> NoPromise]
    /\ seen = [p \in Procs |-> NoBrowser]
    /\ caught = [p \in Procs |-> "none"]
    /\ allowList = <<>>
    /\ kv = [u \in Users |-> NoUser]
    /\ keys = [p \in Procs |-> <<>>]
    /\ idx = [p \in Procs |-> 0]
    /\ user = [p \in Procs |-> NoUser]
    /\ authAt = [p \in Procs |-> 0]
    /\ authErr = [p \in Procs |-> FALSE]
    /\ http = NoHttp
    /\ pages = [i \in PageIds |-> NoPage]
    /\ time = [p \in Procs |-> <<>>]
    /\ page = [p \in Procs |-> 0]
    /\ used = [p \in Procs |-> NoBrowser]
    /\ times = [p \in Procs |-> <<>>]
    /\ normalizedTime = [p \in Procs |-> <<>>]
    /\ result = [p \in Procs |-> NoResult]
    /\ did = [p \in Procs |-> {}]
    /\ plist = [p \in Procs |-> <<>>]
    /\ pidx = [p \in Procs |-> 0]
    /\ bookings = [d \in Days |-> NoBooking]
    /\ days = [p \in Procs |-> 0]
    /\ hi = [p \in Procs |-> 0]
    /\ found = [p \in Procs |-> <<>>]
    /\ date = [p \in Procs |-> NoDate]
    /\ availability = [p \in Procs |-> NoAvailability]
    /\ tb = [p \in Procs |-> NoBrowser]
    /\ calls = [p \in Procs |-> 0]
    /\ pageText = [p \in Procs |-> <<>>]
    /\ court = [p \in Procs |-> "none"]
    /\ clicks = [p \in Procs |-> 0]
    /\ cell = [p \in Procs |-> NoCell]

SpecNorm == InitNorm /\ [][Normalize]_vars

SessionNext ==
    \/ \E p \in Procs : CallInit(p)
    \/ \E k \in AcqIds, ok \in BOOLEAN : CloseSettles(k, ok)
    \/ \E k \in AcqIds, ok \in BOOLEAN : LaunchSettles(k, ok)
    \/ \E p \in Procs : InitResume(p)
    \/ \E p \in Procs : InitDone(p)
    \/ \E d \in SessionSteps : Tick(d)

SpecSession == Init /\ [][SessionNext]_vars

\* The date bookings are made for, and the dates callers of check_tennis_courts give.
BookDate == [kind |-> "iso", day |-> 1]
DateArgs == {NoDate, [kind |-> "today", day |-> 0], [kind |-> "iso", day |-> 1],
             [kind |-> "invalid", day |-> 0]}

\* The slot texts the site shows (the innerText read at line 492, one slot per
\* line) and the times callers ask for.
Line8am == <<"8", ":", "0", "0", " ", "A", "M">>
Line10am == <<"1", "0", ":", "0", "0", " ", "A", "M">>
Line11am == <<"1", "1", ":", "0", "0", " ", "A", "M">>
Line2pm == <<"2", ":", "0", "0", " ", "P", "M">>
SlotTexts == {Line8am \o <<"\n">> \o Line10am, Line11am, Line2pm}
TimeArgs ==
    {<<"9", ":", "0", "0", " ", "P", "M">>, <<"1", ":", "0", "0", " ", "A", "M">>,
     <<"2", "p", "m">>}

\* The body texts the site shows after a code that did not lead to success; ''
\* is also what a failed read gives.
BodyTexts == {<<>>, <<"T", "r", "y">>, <<"!", " ">> \o ReservedIndicator \o <<".">>}

\* The sign-ins of one allowed user.
SignIns == {b \in Bodies : b.hasEmail /\ b.email = <<"a">>}
\* The callers whose invocations run the gated tools.
ToolProcs == 1..NumToolCallers

\* The gated tool handlers beside sign-ins; no handler here closes a browser
\* (init() is entered only without a handle, lines 433 and 580).
ToolsNext ==
    \/ \E b \in SignIns : Fetch("POST", b, TRUE)
    \/ FetchDone
    \/ \E u \in Users : Expire(u)
    \/ \E p \in ToolProcs, ok \in BOOLEAN : AuthListSettles(p, ok)
    \/ \E p \in ToolProcs, o \in {"ok", "garbage", "throw"} : AuthGetSettles(p, o)
    \/ \E k \in AcqIds, ok \in BOOLEAN : LaunchSettles(k, ok)
    \/ \E p \in ToolProcs : InitResume(p)
    \/ \E p \in ToolProcs, t \in TimeArgs : CallBook(p, t, BookDate)
    \/ \E p \in ToolProcs : BookGate(p)
    \/ \E p \in ToolProcs : BookAfterInit(p)
    \/ \E p \in ToolProcs, ok \in BOOLEAN, text \in SlotTexts \cup {<<>>} : BookStep(p, ok, text)
    \/ \E p \in ToolProcs, ok \in BOOLEAN : BookCloseSettles(p, ok)
    \/ \E p \in ToolProcs : CallEnter(p)
    \/ \E p \in ToolProcs : EnterGate(p)
    \/ \E p \in ToolProcs : EnterAfterInit(p)
    \/ \E p \in ToolProcs : EnterProbeSettles(p)
    \/ \E p \in ToolProcs, ok \in BOOLEAN : EnterStep(p, ok)
    \/ \E p \in ToolProcs, success, stays \in BOOLEAN : EnterWaitSettles(p, success, stays)
    \/ \E p \in ToolProcs, text \in BodyTexts : EnterTextSettles(p, text)
    \/ \E p \in ToolProcs, n \in 1..NumDays : CallHistory(p, n)
    \/ \E p \in ToolProcs : HistoryGate(p)
    \/ \E p \in ToolProcs, ok \in BOOLEAN : HistoryGetSettles(p, ok)
    \/ \E p \in ToolProcs : ToolReturns(p)
    \/ \E d \in {SESSION_MAX_AGE} : Tick(d)

SpecTools == Init /\ [][ToolsNext]_vars

\* What AI.run does, and the courts callers of check_tennis_courts name.
SummaryOutcomes == {"text", "empty", "throw"}
CourtArgs == {"none", "Alice Marble"}
\* One booking workflow beside the public check: a sign-in, bookings of a listed
\* time, availability checks, the code entry, and the handle going stale.
WorkflowNext ==
    \/ \E b \in SignIns : Fetch("POST", b, TRUE)
    \/ FetchDone
    \/ \E p \in ToolProcs, ok \in BOOLEAN : AuthListSettles(p, ok)
    \/ \E p \in ToolProcs, o \in {"ok", "garbage", "throw"} : AuthGetSettles(p, o)
    \/ \E k \in AcqIds, ok \in BOOLEAN : CloseSettles(k, ok)
    \/ \E k \in AcqIds, ok \in BOOLEAN : LaunchSettles(k, ok)
    \/ \E p \in ToolProcs : InitResume(p)
    \/ \E p \in ToolProcs : CallBook(p, <<"2", "p", "m">>, BookDate)
    \/ \E p \in ToolProcs : BookGate(p)
    \/ \E p \in ToolProcs : BookAfterInit(p)
    \/ \E p \in ToolProcs, ok \in BOOLEAN, text \in {Line2pm, <<>>} : BookStep(p, ok, text)
    \/ \E p \in ToolProcs, ok \in BOOLEAN : BookCloseSettles(p, ok)
    \/ \E p \in ToolProcs : CallCheck(p, "none", NoDate, <<>>)
    \/ \E p \in ToolProcs : CheckAfterInit(p)
    \/ \E p \in ToolProcs, ok \in BOOLEAN, text \in {Line2pm, <<>>} : CheckStep(p, ok, text)
    \/ \E p \in ToolProcs, o \in SummaryOutcomes : CheckSummarySettles(p, o)
    \/ \E p \in ToolProcs : CallEnter(p)
    \/ \E p \in ToolProcs : EnterGate(p)
    \/ \E p \in ToolProcs : EnterAfterInit(p)
    \/ \E p \in ToolProcs : EnterProbeSettles(p)
    \/ \E p \in ToolProcs, ok \in BOOLEAN : EnterStep(p, ok)
    \/ \E p \in ToolProcs, success, stays \in BOOLEAN : EnterWaitSettles(p, success, stays)
    \/ \E p \in ToolProcs, text \in BodyTexts : EnterTextSettles(p, text)
    \/ \E p \in ToolProcs : ToolReturns(p)
    \/ Tick(BROWSER_TIMEOUT)

SpecWorkflow == Init /\ [][WorkflowNext]_vars

\* The tools without a gate, while the handle stays fresh.
PublicNext ==
    \/ \E k \in AcqIds, ok \in BOOLEAN : LaunchSettles(k, ok)
    \/ \E p \in ToolProcs : InitResume(p)
    \/ \E p \in ToolProcs, c \in CourtArgs, d \in DateArgs, t \in {<<>>, Line2pm} :
            CallCheck(p, c, d, t)
    \/ \E p \in ToolProcs : CheckAfterInit(p)
    \/ \E p \in ToolProcs, ok \in BOOLEAN, text \in SlotTexts \cup {<<>>} : CheckStep(p, ok, text)
    \/ \E p \in ToolProcs, o \in SummaryOutcomes : CheckSummarySettles(p, o)
    \/ \E p \in ToolProcs : CallTestBrowser(p)
    \/ \E p \in ToolProcs, ok \in BOOLEAN : TestStep(p, ok)
    \/ \E p \in ToolProcs : ToolReturns(p)

SpecPublic == Init /\ [][PublicNext]_vars

\* Overlapping availability checks, while the handle stays fresh.
RaceNext ==
    \/ \E k \in AcqIds, ok \in BOOLEAN : LaunchSettles(k, ok)
    \/ \E p \in Procs : InitResume(p)
    \/ \E p \in Procs : CallCheck(p, "none", NoDate, <<>>)
    \/ \E p \in Procs : CheckAfterInit(p)
    \/ \E p \in Procs, ok \in BOOLEAN, text \in {Line2pm, <<>>} : CheckStep(p, ok, text)
    \/ \E p \in Procs, o \in SummaryOutcomes : CheckSummarySettles(p, o)
    \/ \E p \in Procs : ToolReturns(p)

SpecRace == Init /\ [][RaceNext]_vars

\* The dates callers of book_and_request_sms give: a day of this month, a day
\* of the next month, and a string that is no date.
BookDates == {[kind |-> "iso", day |-> 1], [kind |-> "iso", day |-> Today + 1],
              [kind |-> "invalid", day |-> 0]}

\* Availability checks and bookings of one caller, one after the other, for
\* dates of this month and the next.
CalendarProcs == {1}
CalendarNext ==
    \/ \E b \in SignIns : Fetch("POST", b, TRUE)
    \/ FetchDone
    \/ \E p \in CalendarProcs : AuthListSettles(p, TRUE)
    \/ \E p \in CalendarProcs : AuthGetSettles(p, "ok")
    \/ \E k \in AcqIds : LaunchSettles(k, TRUE)
    \/ \E p \in CalendarProcs : InitResume(p)
    \/ \E p \in CalendarProcs, d \in BookDates : CallBook(p, <<"2", "p", "m">>, d)
    \/ \E p \in CalendarProcs : BookGate(p)
    \/ \E p \in CalendarProcs : BookAfterInit(p)
    \/ \E p \in CalendarProcs, ok \in BOOLEAN, text \in {Line2pm, <<>>} : BookStep(p, ok, text)
    \/ \E p \in CalendarProcs, ok \in BOOLEAN : BookCloseSettles(p, ok)
    \/ \E p \in CalendarProcs, d \in DateArgs : CallCheck(p, "none", d, <<>>)
    \/ \E p \in CalendarProcs : CheckAfterInit(p)
    \/ \E p \in CalendarProcs, ok \in BOOLEAN, text \in {Line2pm, <<>>} : CheckStep(p, ok, text)
    \/ \E p \in CalendarProcs : CheckSummarySettles(p, "text")
    \/ \E p \in CalendarProcs : ToolReturns(p)

SpecCalendar == Init /\ [][CalendarNext]_vars

\* A caller of init() (which re-acquires a stale handle) overlapping a booking
\* workflow of another caller.
Initializers == {1}
Bookers == {NumCallers}
OverlapNext ==
    \/ \E b \in SignIns : Fetch("POST", b, TRUE)
    \/ FetchDone
    \/ \E p \in Bookers : AuthListSettles(p, TRUE)
    \/ \E p \in Bookers : AuthGetSettles(p, "ok")
    \/ \E k \in AcqIds, ok \in BOOLEAN : CloseSettles(k, ok)
    \/ \E k \in AcqIds : LaunchSettles(k, TRUE)
    \/ \E p \in Initializers \cup Bookers : InitResume(p)
    \/ \E p \in Initializers : CallInit(p)
    \/ \E p \in Initializers : InitDone(p)
    \/ \E p \in Bookers : CallBook(p, <<"2", "p", "m">>, BookDate)
    \/ \E p \in Bookers : BookGate(p)
    \/ \E p \in Bookers : BookAfterInit(p)
    \/ \E p \in Bookers, ok \in BOOLEAN : BookStep(p, ok, IF pc[p] = "b_read" /\ ok THEN Line2pm ELSE <<>>)
    \/ \E p \in Bookers, ok \in BOOLEAN : BookCloseSettles(p, ok)
    \/ \E p \in Bookers : CallEnter(p)
    \/ \E p \in Bookers : EnterGate(p)
    \/ \E p \in Bookers : EnterAfterInit(p)
    \/ \E p \in Bookers : EnterProbeSettles(p)
    \/ \E p \in Bookers, ok \in BOOLEAN : EnterStep(p, ok)
    \/ \E p \in Bookers, success, stays \in BOOLEAN : EnterWaitSettles(p, success, stays)
    \/ \E p \in Bookers : EnterTextSettles(p, <<>>)
    \/ \E p \in Bookers : ToolReturns(p)
    \/ Tick(BROWSER_TIMEOUT)

SpecOverlap == Init /\ [][OverlapNext]_vars

\* init() and cleanup() called directly, one call after the other.
TeardownNext ==
    \/ \E p \in ToolProcs : CallInit(p)
    \/ \E k \in AcqIds, ok \in BOOLEAN : CloseSettles(k, ok)
    \/ \E k \in AcqIds, ok \in BOOLEAN : LaunchSettles(k, ok)
    \/ \E p \in ToolProcs : InitResume(p)
    \/ \E p \in ToolProcs : InitDone(p)
    \/ \E p \in ToolProcs : CallCleanup(p)
    \/ \E p \in ToolProcs, ok \in BOOLEAN : CleanupCloseSettles(p, ok)
    \/ \E p \in ToolProcs : ToolReturns(p)
    \/ \E d \in SessionSteps : Tick(d)

SpecTeardown == Init /\ [][TeardownNext]_vars

\* The booking store filled by saveBookingToKV for two subjects, and the
\* history read by a signed-in subject; no record is saved while a history
\* call is reading the store.
HistorySubjects == {<<"a">>, <<"B">>}
HistoryNext ==
    \/ \E b \in {x \in Bodies : x.hasEmail /\ x.email \in HistorySubjects} :
            Fetch("POST", b, TRUE)
    \/ FetchDone
    \/ \E p \in ToolProcs, ok \in BOOLEAN : AuthListSettles(p, ok)
    \/ \E p \in ToolProcs, o \in {"ok", "garbage", "throw"} : AuthGetSettles(p, o)
    \/ \E d \in Days, e \in HistorySubjects, ok \in BOOLEAN :
            /\ \A p \in Procs : pc[p] # "h_get"
            /\ SaveBookingToKV("DuPont", Line2pm, d, e, ok)
    \/ \E p \in ToolProcs, n \in 1..NumDays : CallHistory(p, n)
    \/ \E p \in ToolProcs : HistoryGate(p)
    \/ \E p \in ToolProcs, ok \in BOOLEAN : HistoryGetSettles(p, ok)
    \/ \E p \in ToolProcs : ToolReturns(p)

SpecHistory == Init /\ [][HistoryNext]_vars

\* The /authenticate endpoint alone, under every kind of request.
HttpNext ==
    \/ \E m \in Methods, b \in Bodies, putOk \in BOOLEAN : Fetch(m, b, putOk)
    \/ FetchDone
    \/ \E u \in Users : Expire(u)
    \/ \E d \in AuthSteps : Tick(d)

SpecHttp == Init /\ [][HttpNext]_vars

\* The authorization lookup beside sign-ins (POSTs that reach the store).
AuthNext ==
    \/ \E b \in Bodies : Fetch("POST", b, TRUE)
    \/ FetchDone
    \/ \E u \in Users : Expire(u)
    \/ \E p \in Procs : CallAuthStatus(p)
    \/ \E p \in Procs, ok \in BOOLEAN : AuthListSettles(p, ok)
    \/ \E p \in Procs, o \in {"ok", "garbage", "throw"} : AuthGetSettles(p, o)
    \/ \E p \in Procs : AuthStatusReturns(p)
    \/ \E d \in AuthSteps : Tick(d)

SpecAuth == Init /\ [][AuthNext]_vars

\* ------------------------------------------------------------- claims
\* C1: over all interleavings of overlapping init() calls at most one
\* acquisition (close or launch) is in progress at any time, and a caller that
\* entered init() while an acquisition was in flight awaits exactly that
\* acquisition: it returns only once that acquisition's handle is installed
\* in this.browser, or it throws that acquisition's error.
C1_SingleFlight ==
    /\ Cardinality({k \in AcqIds : promises[k].st = "launching"}) <= 1
    /\ Cardinality({k \in AcqIds : InFlight(k)}) <= 1
    /\ \A p \in Procs :
         /\ (pc[p] \in {"init_wait", "init_ret", "init_thrown"} /\ joined[p] # NoPromise)
               => awaited[p] = joined[p]
         /\ (pc[p] = "init_ret" /\ joined[p] # NoPromise)
               => /\ promises[joined[p]].st = "resolved"
                  /\ seen[p] # NoBrowser
                  /\ seen[p] = promises[joined[p]].handle
         /\ (pc[p] = "init_thrown" /\ joined[p] # NoPromise)
               => /\ promises[joined[p]].st = "rejected"
                  /\ caught[p] = promises[joined[p]].err
         /\ (pc[p] = "init_wait" /\ joined[p] # NoPromise /\ InFlight(joined[p]))
               => p \notin Runnable

\* C1 witness: a caller that joined an acquisition in flight has returned with
\* the handle that acquisition installed, as has the caller that started it.
C1_Witness ==
    \E p, q \in Procs :
        /\ p # q
        /\ pc[p] = "init_ret" /\ joined[p] # NoPromise
        /\ pc[q] = "init_ret" /\ joined[q] = NoPromise /\ awaited[q] = joined[p]
        /\ seen[p] = seen[q] /\ seen[p] # NoBrowser

\* C2 (as claimed): an init() call that finds a fresh handle returns with the
\* handle unchanged and nothing in flight; every acquisition that found an
\* existing (stale) handle issues exactly one close followed by one launch.
C2_FreshReusedStaleReacquiredOnce ==
    /\ \A p \in Procs :
         (pc[p] = "init_ret" /\ awaited[p] = NoPromise /\ joined[p] = NoPromise)
            => /\ browser = seen[p] /\ browser # NoBrowser
               /\ \A k \in AcqIds : ~InFlight(k)
    /\ \A k \in AcqIds :
         (Settled(k) /\ promises[k].old # NoBrowser)
            => promises[k].closes = 1 /\ promises[k].launches = 1

OneHour == 60 * 60 * 1000

\* C4: whenever the authorization lookup has returned a record to an
\* invocation, the record's age at the moment of the lookup's clock read,
\* now - issuedAt, was strictly less than one hour, however many records are
\* stored; so no invocation holds a user whose record was one hour old or more.
C4_ReturnedRecordWithinTtl ==
    \A p \in Procs :
        Present(user[p]) =>
            /\ authAt[p] - user[p].timestamp < OneHour
            /\ authAt[p] - user[p].timestamp >= 0

\* C4 witness: a lookup returned a record although an expired record was still
\* in the store (listed before it and passed over).
C4_Witness ==
    \E p \in Procs, u \in Users :
        /\ pc[p] = "authed" /\ Present(user[p]) /\ user[p].id # u
        /\ Present(kv[u]) /\ now - kv[u].timestamp >= OneHour
        /\ u < user[p].id

\* C5: with a single record in the store (issued for one subject, nothing else
\* stored), a lookup that completes reads the clock either less than one hour
\* after the issue and returns that record with its email, or one hour or more
\* after it and returns absent.
C5_SingleRecordLookup ==
    \A p \in Procs :
        (/\ pc[p] = "authed" /\ ~authErr[p]
         /\ Len(keys[p]) = 1
         /\ \A u \in Users : u # keys[p][1] => ~Present(kv[u]))
        => LET r == kv[keys[p][1]]
           IN IF Present(r) /\ now - r.timestamp < OneHour
              THEN user[p] = r /\ user[p].email = r.email /\ user[p].id = keys[p][1]
              ELSE user[p] = NoUser

\* C5 witness: the record of subject 1 (email "a") is returned one millisecond
\* before the hour has elapsed.
C5_Witness ==
    \E p \in Procs :
        /\ pc[p] = "authed" /\ keys[p] = <<1>> /\ ~Present(kv[2])
        /\ user[p].email = <<"a">> /\ user[p].id = 1
        /\ now - user[p].timestamp = OneHour - 1

\* C6 (as claimed): when the lookup returns while several listed records are
\* within the TTL, the record returned has the greatest issuedAt of them.
C6_MostRecentReturned ==
    \A p \in Procs :
        (/\ pc[p] = "authed" /\ Present(user[p])
         /\ \A u \in Users : Present(kv[u]) => ArrayIncludes(keys[p], u))
        => \A u \in Users :
              (Present(kv[u]) /\ now - kv[u].timestamp < OneHour)
                 => kv[u].timestamp <= user[p].timestamp

\* C6 (amended): the lookup walks the keys in the order the store lists them
\* and returns the first record it finds within the TTL: each get either
\* returns the record under the key it is at, when that record is present and
\* less than one hour old, or moves to the next key (absent when none is left);
\* the record returned need not have the greatest issuedAt.
C6_FirstFreshInListingOrder ==
    [][\A p \in Procs :
         (pc[p] = "auth_get" /\ (pc'[p] # "auth_get" \/ idx'[p] # idx[p]) /\ ~authErr'[p])
         => LET r == kv[keys[p][idx[p]]]
                fresh == Present(r) /\ now - r.timestamp < OneHour
            IN /\ fresh => (pc'[p] = "authed" /\ user'[p] = r)
               /\ (~fresh /\ idx[p] < Len(keys[p]))
                     => (pc'[p] = "auth_get" /\ idx'[p] = idx[p] + 1)
               /\ (~fresh /\ idx[p] = Len(keys[p]))
                     => (pc'[p] = "authed" /\ user'[p] = NoUser)]_vars

\* C6 witness: the lookup returned a record while another stored record within
\* the TTL has a greater issuedAt.
C6_Witness ==
    \E p \in Procs, u \in Users :
        /\ pc[p] = "authed" /\ Present(user[p])
        /\ ArrayIncludes(keys[p], u) /\ Present(kv[u])
        /\ now - kv[u].timestamp < OneHour
        /\ kv[u].timestamp > user[p].timestamp

\* C7: when the store fails during the lookup (list or get throws, or the
\* value does not parse), authenticateUser returns no user.
C7_FailClosed ==
    \A p \in Procs : authErr[p] => ~Present(user[p])

\* C7 witness: the store failed during a lookup while a record within the TTL
\* was stored, and the invocation got no user.
C7_Witness ==
    \E p \in Procs, u \in Users :
        /\ pc[p] = "authed" /\ authErr[p] /\ ~Present(user[p])
        /\ Present(kv[u]) /\ now - kv[u].timestamp < OneHour

\* The allow-list membership the endpoint is to decide: the email equals, up to
\* letter case, one of the addresses the configured list names.
IsMember(email) ==
    \E cfg \in AllowConfigs :
        /\ cfg.text = allowList
        /\ \E x \in cfg.entries : ToLowerCase(x) = ToLowerCase(email)

\* C8: a request to /authenticate writes a record and answers 200 only if it is
\* a POST whose email is a member of the allow-list (compared case-insensitively
\* with its trimmed entries), and such a POST that meets no error does both; a
\* POST with a non-member email answers 403 naming that email; a malformed or
\* erroring POST answers 500; every outcome other than 200 leaves the store
\* unchanged.
C8_AuthenticateOutcomes ==
    [][(http = NoHttp /\ http' # NoHttp)
       => LET r == http'
              wellFormed == r.body.json /\ r.body.hasEmail
              member == wellFormed /\ IsMember(r.body.email)
          IN /\ (r.status = 200 /\ kv' # kv) => (r.method = "POST" /\ member)
             /\ (r.method = "POST" /\ member /\ r.putOk)
                   => /\ r.status = 200
                      /\ kv' = [kv EXCEPT ![r.body.userId] =
                                  [id |-> r.body.userId, email |-> r.body.email,
                                   timestamp |-> now]]
             /\ (r.method = "POST" /\ wellFormed /\ ~member)
                   => (r.status = 403 /\ r.named = r.body.email)
             /\ (r.method = "POST" /\ (~wellFormed \/ (member /\ ~r.putOk)))
                   => r.status = 500
             /\ r.status # 200 => kv' = kv]_vars

\* C8 witness: a POST whose email differs in letter case from the allow-list
\* entry was answered 200 and its record is in the store.
C8_Witness ==
    /\ http.status = 200 /\ http.method = "POST"
    /\ http.body.email = <<"B">>
    /\ kv[2] = [id |-> 2, email |-> <<"B">>, timestamp |-> now]

\* A time written the way callers write it: one or two digits, optionally
\* ":MM", optionally one space, then am or pm in any letter case.
AcceptedStyle(s) ==
    \E h \in 1..2, mm \in {0, 3}, sp \in 0..1 :
        /\ Len(s) = h + mm + sp + 2
        /\ \A k \in 1..h : IsDigit(s[k])
        /\ mm = 3 => (s[h + 1] = ":" /\ IsDigit(s[h + 2]) /\ IsDigit(s[h + 3]))
        /\ sp = 1 => s[h + mm + 1] = " "
        /\ ToLowerCase(SubSeq(s, h + mm + sp + 1, h + mm + sp + 2))
              \in {<<"a", "m">>, <<"p", "m">>}
\* The canonical form "H:MM AM/PM".
Canonical(s) ==
    \E h \in 1..2 :
        /\ Len(s) = h + 6
        /\ \A k \in 1..h : IsDigit(s[k])
        /\ s[h + 1] = ":" /\ IsDigit(s[h + 2]) /\ IsDigit(s[h + 3]) /\ s[h + 4] = " "
        /\ SubSeq(s, h + 5, h + 6) \in {<<"A", "M">>, <<"P", "M">>}
\* Digits immediately followed by am or pm (any letter case) and nothing else.
Compact(s) ==
    /\ Len(s) >= 3
    /\ \A k \in 1..(Len(s) - 2) : IsDigit(s[k])
    /\ ToLowerCase(SubSeq(s, Len(s) - 1, Len(s))) \in {<<"a", "m">>, <<"p", "m">>}

\* C10 (as claimed): every "2pm"-style or "2:00 PM"-style argument, in any
\* letter case and with or without a space before am/pm, is normalised to the
\* canonical form "H:MM AM/PM"; "2pm" becomes "2:00 PM", "2:00 PM" is unchanged,
\* and normalising a normalised value changes nothing.
C10_EveryStyleCanonical ==
    normDone =>
        /\ AcceptedStyle(normIn) => Canonical(normOut)
        /\ normIn = <<"2", "p", "m">> => normOut = <<"2", ":", "0", "0", " ", "P", "M">>
        /\ normIn = <<"2", ":", "0", "0", " ", "P", "M">> => normOut = normIn
        /\ NormalizeTime(normOut) = normOut

\* C10 (amended): an argument made of digits immediately followed by am or pm
\* (any letter case, no colon, no space) is normalised to those digits, ":00 ",
\* and AM or PM in upper case, so "2pm" becomes "2:00 PM"; an argument that
\* contains a colon is returned unchanged, so "2:00 PM" is unchanged (and
\* "2:00 pm" is not put in upper case); an argument with a space before am/pm
\* and no colon is only put in upper case; normalising a normalised value
\* changes nothing.
C10_CompactFormsCanonical ==
    normDone =>
        /\ Compact(normIn)
              => /\ normOut = SubSeq(normIn, 1, Len(normIn) - 2)
                                \o <<":", "0", "0", " ">>
                                \o ToUpperCase(SubSeq(normIn, Len(normIn) - 1, Len(normIn)))
                 /\ Len(normIn) <= 4 => Canonical(normOut)
        /\ (\E i \in 1..Len(normIn) : normIn[i] = ":") => normOut = normIn
        /\ (AcceptedStyle(normIn) /\ ~Compact(normIn)
              /\ ~\E i \in 1..Len(normIn) : normIn[i] = ":")
              => normOut = ToUpperCase(normIn)
        /\ normIn = <<"2", "p", "m">> => normOut = <<"2", ":", "0", "0", " ", "P", "M">>
        /\ normIn = <<"2", ":", "0", "0", " ", "P", "M">> => normOut = normIn
        /\ NormalizeTime(normOut) = normOut

\* C10 witness: "2pm" has been normalised to "2:00 PM".
C10_Witness ==
    /\ normDone
    /\ normIn = <<"2", "p", "m">>
    /\ normOut = <<"2", ":", "0", "0", " ", "P", "M">>

\* The tools behind the authorization gate, and what counts as acting: every
\* operation an invocation issues on the browser, a page or the stores.
GatedTools == {"book", "enter", "history"}
Untouched(p) ==
    /\ did[p] = {}
    /\ page[p] = 0
    /\ used[p] = NoBrowser
    /\ awaited[p] = NoPromise

\* C3: an invocation of a gated tool (book_and_request_sms,
\* enter_sms_code_and_complete, get_booking_history) whose authorization
\* lookup found no record issued less than one hour before gets the
\* authentication-required answer and has issued nothing: no init(), no
\* launch, no page opened or driven, no store write, no booking read.
C3_GatedToolsRefuseWithoutRecord ==
    \A p \in Procs :
        (/\ tool[p] \in GatedTools
         /\ pc[p] \notin {"idle", "auth_list", "auth_get", "authed"}
         /\ ~(Present(user[p]) /\ authAt[p] - user[p].timestamp < OneHour))
        => /\ pc[p] = "done"
           /\ result[p].kind = "auth_required"
           /\ Untouched(p)

\* C3 witness: book_and_request_sms was refused while the only stored record
\* was one hour old, and nothing was launched or opened.
C3_Witness ==
    \E p \in Procs, u \in Users :
        /\ tool[p] = "book" /\ pc[p] = "done" /\ ~authErr[p]
        /\ result[p].kind = "auth_required" /\ Untouched(p)
        /\ Present(kv[u]) /\ now - kv[u].timestamp >= OneHour
        /\ launched = 0
        /\ \A q \in PageIds : pages[q].st = "unused"

\* The set of time slots read from the page: the lines of the text that hold a
\* colon (one slot per line).
SlotSet(text) ==
    LET parts == Split(text, "\n")
    IN {parts[i] : i \in {j \in 1..Len(parts) : StringIncludes(parts[j], <<":">>)}}
SlotOps == {"clickSlot", "duration", "participant", "sendCode"}

\* C9: in book_and_request_sms, once the slots are read, if the normalized
\* requested time is not an element of the slot set, no slot is clicked, no
\* duration set, no participant selected and no code requested, and the call
\* ends in the "not available" error listing the times read.
C9_AbsentSlotNeverBooked ==
    \A p \in Procs :
        (/\ tool[p] = "book"
         /\ normalizedTime[p] # <<>>
         /\ normalizedTime[p] \notin SlotSet(times[p]))
        => /\ did[p] \cap SlotOps = {}
           /\ pc[p] = "done" =>
                /\ result[p].kind = "failed"
                /\ result[p].msg = "not_available"
                /\ result[p].listed = times[p]

\* A page stopped at the verification-code input: a booking workflow awaiting
\* its code.
AwaitingPages == {q \in PageIds : pages[q].st = "open" /\ pages[q].totp}

\* C11: a page that book_and_request_sms left open at the verification step
\* stays open, in a browser that stays open, through every step taken while no
\* enter_sms_code_and_complete invocation is under way: no other tool call and
\* no passing of time closes the page or its browser.
C11_AwaitingPageRetained ==
    [][\A q \in AwaitingPages :
          (\A p \in Procs : tool[p] # "enter" /\ tool'[p] # "enter")
          => /\ pages'[q].st = "open"
             /\ pages'[q].h \in live']_vars

\* C12: at most one booking workflow awaits its verification code: of the open
\* pages of one browser, at most one is stopped at the verification-code input,
\* also after a second book_and_request_sms.
C12_SingleAwaitingWorkflow ==
    \A h \in 1..(2 * MaxAcq) :
        Cardinality({q \in AwaitingPages : pages[q].h = h}) <= 1

\* C13: when enter_sms_code_and_complete returns the confirmation (it saw
\* "You're all set!"), the record store holds a completed booking record of the
\* subject under a booking:<date> key.
C13_CompletedBookingRecorded ==
    \A p \in Procs :
        (tool[p] = "enter" /\ pc[p] = "done" /\ result[p].kind = "completed")
        => \E d \in Days :
              /\ bookings[d].status = "completed"
              /\ bookings[d].date = d
              /\ bookings[d].userEmail = user[p].email

\* C14: when enter_sms_code_and_complete has awaited the success text in vain,
\* it returns "already reserved" exactly when the page text it read holds that
\* indicator, and otherwise the "timeout - check manually" text, not a plain
\* failure; it has not closed the page, and no booking record is stored.
C14_NoSuccessOutcome ==
    \A p \in Procs :
        (/\ tool[p] = "enter" /\ pc[p] = "done"
         /\ "readBody" \in did[p])
        => /\ result[p].kind \in {"already_reserved", "timeout"}
           /\ result[p].kind = "already_reserved"
                <=> StringIncludes(pageText[p], ReservedIndicator)
           /\ "closePage" \notin did[p]
           /\ pages[page[p]].st = "open"
           /\ \A d \in Days : bookings[d] = NoBooking

\* C14 witness: both failure texts occur: this call got "check manually" after
\* a text without the indicator was read.
C14_Witness ==
    \E p \in Procs :
        /\ tool[p] = "enter" /\ pc[p] = "done"
        /\ result[p].kind = "timeout"
        /\ pageText[p] # <<>>
        /\ pages[page[p]].st = "open"

\* C15: when a step of book_and_request_sms after the page was opened throws,
\* the attempt ends with the error text returned and nothing closed: the
\* handler issues no page.close(), and the page stays open.
C15_FailedBookingClosesNothing ==
    \A p \in Procs :
        (tool[p] = "book" /\ page[p] # 0)
        => /\ "closePage" \notin did[p]
           /\ (pc[p] = "done" /\ result[p].kind # "sms_requested")
                => /\ result[p].kind = "failed"
                   /\ pages[page[p]].st = "open"

\* C16: no exception leaves a tool handler: whatever fails (init, page
\* creation, page driving, page close, the store, the summarizer), the handler
\* returns a text result.
C16_NoExceptionEscapes ==
    \A p \in Procs : result[p].kind # "escaped"

\* C17: cleanup() called twice in succession never raises; when the first call
\* returns no handle is held, also when the close failed; the second call
\* issues no close and finds and leaves no handle.
C17_CleanupIdempotent ==
    \A p \in Procs :
        (tool[p] = "cleanup" /\ pc[p] = "done")
        => /\ result[p].kind # "escaped"
           /\ calls[p] = 0 => browser = NoBrowser
           /\ calls[p] = 1 => (did[p] = {} /\ browser = NoBrowser)

\* C18: at most one launched browser is open at any time, whichever tool
\* launched it, test_browser included.
C18_SingleLiveHandle ==
    Cardinality(live) <= 1

\* An invocation suspended at an await in the middle of driving a browser.
DrivingStages ==
    {"c_newpage", "c_goto", "c_court", "c_picker", "c_next", "c_date", "c_read",
     "c_close", "b_newpage", "b_nav", "b_picker", "b_next", "b_date", "b_read", "b_slot", "b_duration",
     "b_participant", "b_sendcode", "b_totp", "b_close",
     "e_probe", "e_type", "e_confirm", "e_wait", "e_text"}
Driving(p) == pc[p] \in DrivingStages

\* C19: no two overlapping invocations are in the middle of driving the same
\* browser handle.
C19_OneDriverAtATime ==
    \A p, q \in Procs :
        (p # q /\ Driving(p) /\ Driving(q)) => used[p] # used[q]

\* C20: check_tennis_courts never raises; a failure of the court, date or slot
\* steps is recorded in availability (error text, no slots, total zero), and
\* the call then goes on to the summary and returns a text telling the error.
C20_CheckAlwaysAnswers ==
    \A p \in Procs :
        tool[p] = "check"
        => /\ result[p].kind # "escaped"
           /\ (availability[p].set /\ availability[p].error # "none")
                => /\ availability[p].availableTimes = <<>>
                   /\ availability[p].totalSlots = 0
                   /\ pc[p] = "done"
                        => /\ result[p].kind \in {"summary", "fallback_error"}
                           /\ result[p].msg = availability[p].error

\* C21: when the summarizer gave no usable text (it threw, or answered with no
\* text), the response of check_tennis_courts names the court and lists every
\* slot line read from the page.
C21_NoSummaryStillCarriesData ==
    \A p \in Procs :
        (/\ tool[p] = "check" /\ pc[p] = "done"
         /\ "summarize" \in did[p]
         /\ result[p].kind # "summary")
        => /\ result[p].court = TargetCourt(court[p])
           /\ result[p].listed = availability[p].availableTimes

\* The days of the last n calendar days, today first.
RECURSIVE Window(_, _)
Window(i, n) == IF i >= n THEN <<>> ELSE <<Today - i>> \o Window(i + 1, n)

\* C22: the history returned to subject e for lookback n lists exactly the days
\* of the last n calendar days that hold a stored record whose subject email
\* equals e: every such record, and no record of another subject.
C22_HistoryScoped ==
    \A p \in Procs :
        (tool[p] = "history" /\ pc[p] = "done" /\ result[p].kind = "history")
        => found[p] = SelectSeq(Window(0, days[p]),
                                LAMBDA d : /\ d \in Days
                                           /\ bookings[d].date = d
                                           /\ bookings[d].userEmail = user[p].email)

\* C22 witness: two records lie in the window, one of the subject and one of
\* another subject, and the history is exactly the subject's record.
C22_Witness ==
    \E p \in Procs, d1, d2 \in Days :
        /\ tool[p] = "history" /\ pc[p] = "done" /\ result[p].kind = "history"
        /\ days[p] = NumDays
        /\ bookings[d1].date = d1 /\ bookings[d1].userEmail = user[p].email
        /\ bookings[d2].date = d2 /\ bookings[d2].userEmail # user[p].email
        /\ found[p] = <<d1>>

TwentyFourHours == 24 * OneHour

\* C23: a gated tool whose authorization lookup ran without a store error less
\* than 24 hours after a stored record was issued is not refused for lack of
\* authentication.
C23_AuthorizedFor24Hours ==
    \A p \in Procs, u \in Users :
        (/\ tool[p] \in GatedTools /\ pc[p] = "done" /\ ~authErr[p]
         /\ Present(kv[u])
         /\ kv[u].timestamp < authAt[p]
         /\ authAt[p] - kv[u].timestamp < TwentyFourHours)
        => result[p].kind # "auth_required"

\* C24: when book_and_request_sms or enter_sms_code_and_complete passes its
\* gate while this.browser holds a handle acquired the 5-minute window or more
\* before, the invocation does not take that handle to open or list pages on:
\* the stale handle is torn down and replaced first.
C24_StaleHandleNotDriven ==
    [][\A p \in Procs :
          (/\ tool[p] \in {"book", "enter"}
           /\ pc[p] = "authed"
           /\ browser # NoBrowser
           /\ (now - lastBrowserInit) >= BROWSER_TIMEOUT)
          => used'[p] # browser]_vars

\* C25: an acquisition that closed a stale handle never ends with the close
\* error: whatever the close did, the launch was issued in the same call, and
\* no caller of init() has the close error thrown at it.
C25_CloseErrorNotPropagated ==
    /\ \A k \in AcqIds :
         (Settled(k) /\ promises[k].closes > 0)
            => promises[k].err # "close" /\ promises[k].launches = 1
    /\ \A p \in Procs : pc[p] = "init_thrown" => caught[p] # "close"

\* C26: once enter_sms_code_and_complete has entered a code and returned
\* (confirmation, already reserved, or timeout), the page it drove is no longer
\* stopped at the verification-code input, so no later probe can pick it.
C26_CodeEntryIsTerminal ==
    \A p \in Procs :
        (/\ tool[p] = "enter" /\ pc[p] = "done"
         /\ "typeCode" \in did[p]
         /\ result[p].kind \in {"completed", "already_reserved", "timeout"})
        => page[p] \notin AwaitingPages

\* C27: an authorized enter_sms_code_and_complete that ends while no open page
\* shows the verification-code input, having typed no code, has only called
\* init() and listed pages, has clicked nothing, has left the record store
\* empty and returns the "no verification page found" text; and a call that
\* typed a code typed it on the first page of its listing that showed the input.
C27_NoPageNoAction ==
    \A p \in Procs :
        (tool[p] = "enter" /\ pc[p] = "done" /\ Present(user[p]))
        => /\ (AwaitingPages = {} /\ "typeCode" \notin did[p])
                => /\ result[p].kind = "no_page"
                   /\ did[p] \subseteq {"init", "listPages"}
                   /\ \A d \in Days : bookings[d] = NoBooking
           /\ "typeCode" \in did[p]
                => \E i \in 1..Len(plist[p]) :
                      /\ plist[p][i] = page[p]
                      /\ i <= pidx[p]

\* C28: book_and_request_sms has computed the normalized time before it
\* drives the automation session: whenever it has opened a page, navigated or
\* logged in to the site, normalizedTime already holds the normalized form of
\* the requested time.
C28_NormalizedBeforeDriving ==
    \A p \in Procs :
        (tool[p] = "book" /\ did[p] \cap {"newPage", "nav", "date", "read"} # {})
        => normalizedTime[p] = NormalizeTime(time[p])

\* C29: in check_tennis_courts and book_and_request_sms the 'right' button of
\* the date picker is never clicked when the requested date's month is the
\* current month and never more than once; once the day cell is clicked it has
\* been clicked exactly once when the months differ; and the day cell clicked is
\* the requested day's cell of the month shown, never a cell marked
\* outside-month.
C29_CalendarNavigation ==
    \A p \in Procs :
        tool[p] \in {"check", "book"}
        => /\ clicks[p] <= 1
           /\ GetMonth(TargetDate(p)) = GetMonth(Today) => clicks[p] = 0
           /\ "date" \in did[p]
                => clicks[p] = IF GetMonth(TargetDate(p)) # GetMonth(Today)
                               THEN 1 ELSE 0
           /\ cell[p] # NoCell
                => ~cell[p].outside /\ cell[p].day = GetDate(TargetDate(p))

\* C29 witness: a booking for a day of the next month clicked 'right' once and
\* then that day's cell, while an outside-month cell with the same day number
\* exists in the grid.
C29_Witness ==
    \E p \in Procs :
        /\ tool[p] = "book" /\ pc[p] = "b_read"
        /\ GetMonth(TargetDate(p)) # GetMonth(Today)
        /\ clicks[p] = 1
        /\ cell[p] = [day |-> 1, outside |-> FALSE]
        /\ \E i \in 1..Len(Grid) : Grid[i].day = 1 /\ Grid[i].outside

\* The handle h is being closed: an init() awaits browser.close() on it.
Closing(h) == \E k \in AcqIds : promises[k].st = "closing" /\ promises[k].old = h

\* C30: book_and_request_sms and enter_sms_code_and_complete never take, to
\* open a page on or to list the pages of, a handle that an init() is closing
\* at that moment.
C30_ClosingHandleNotDriven ==
    [][\A p \in Procs :
          (/\ tool[p] \in {"book", "enter"}
           /\ used[p] = NoBrowser
           /\ used'[p] # NoBrowser)
          => ~Closing(used'[p])]_vars

\* C31: when check_tennis_courts returns, the page it opened is closed: no
\* path of the handler, the failure of the first navigation included, leaves
\* its page open in the shared browser.
C31_CheckClosesItsPage ==
    \A p \in Procs :
        (tool[p] = "check" /\ pc[p] = "done" /\ page[p] # 0)
        => pages[page[p]].st # "open"

\* C32: a failed acquisition is not sticky.  At the step an acquisition is
\* rejected (binding missing, launch error or close error) the manager holds no
\* handle and is not marked initializing; a caller that comes to wait in init()
\* waits for an acquisition that has not settled yet, a new one when none is in
\* flight, never for an earlier failure; and a caller whose awaited acquisition
\* succeeded returns with the handle that acquisition launched, a live one.
C32_FailureNotSticky ==
    [][/\ \A k \in AcqIds :
            (promises[k].st # "rejected" /\ promises'[k].st = "rejected")
            => browser' = NoBrowser /\ ~isInitializing'
       /\ \A p \in Procs :
            (pc[p] # "init_wait" /\ pc'[p] = "init_wait")
            => /\ awaited'[p] # NoPromise
               /\ ~Settled(awaited'[p])
               /\ (\A k \in AcqIds : ~InFlight(k))
                    => promises[awaited'[p]].st = "unused"
       /\ \A p \in Procs :
            (pc[p] = "init_wait" /\ pc'[p] = "init_ret")
            => /\ promises[awaited[p]].st = "resolved"
               /\ seen'[p] = promises[awaited[p]].handle
               /\ seen'[p] \in live']_vars

\* C32 witness: after an acquisition failed on the close of a stale handle, the
\* next init() call started a new acquisition and returned with its handle.
C32_Witness ==
    \E p \in Procs, k1, k2 \in AcqIds :
        /\ k1 < k2
        /\ promises[k1].st = "rejected" /\ promises[k1].err = "close"
        /\ promises[k2].st = "resolved" /\ promises[k2].old = NoBrowser
        /\ pc[p] = "init_ret" /\ awaited[p] = k2
        /\ seen[p] = promises[k2].handle /\ browser = seen[p]

\* C33: in every state initPromise is non-null exactly when isInitializing is
\* true, and whenever no acquisition is in flight isInitializing is false and
\* initPromise is null, also after an acquisition that failed before its first
\* await.
C33_FlagMatchesPromise ==
    /\ (initPromise # NoPromise) <=> isInitializing
    /\ (\A k \in AcqIds : ~InFlight(k))
         => ~isInitializing /\ initPromise = NoPromise

====
